---- MODULE Spec2Model ----
(***************************************************************************)
(* Verification model of the SLAM core: the event log (slam_data), the     *)
(* copy-on-write map (cowmap) and the estimators MCMC-SLAM (mcmc_slam),    *)
(* FastSLAM (fastslam) and graph SLAM (g2o_slam).                          *)
(***************************************************************************)
EXTENDS Integers, Sequences, FiniteSets, TLC

\* ---------------------------------------------------------------------
\* Bounds of the model
\* ---------------------------------------------------------------------
MaxControls == 1
MaxObservations == 2
MaxSlots == 2
MaxInserts == 3
MaxEdges == 3

Listeners == {"a", "b"}
FeatureIds == {1, 2}
Values == {1, 2}
Handles == {"m", "m2"}
Keys == {1, 2, 3}
ParticleSlots == {1, 2}

\* mcmc_slam::mcmc_updates_per_step
mcmc_updates_per_step == 1

VARIABLES
    \* slam_data
    m_controls,     \* std::vector<ControlModel>
    m_features,     \* std::map<featureid_t, feature_data_type>, sorted by id
    m_listeners,    \* std::vector<weak_ptr<listener>>
    alive,          \* listeners whose shared_ptr owner still exists
    data_ptr,       \* listener::data_ptr, TRUE when it points at the log
    callbacks,      \* the listener callbacks made by the latest call, in order
    erased,         \* how many slots the latest call erased from m_listeners
    last            \* the latest call and its arguments

VARIABLES
    \* cowmap
    heap,           \* the tree nodes allocated so far; a node's id is its index
    roots,          \* per map handle, the id of its root node, 0 for an empty tree
    inserts,        \* how many insert() calls were made
    contents,       \* per map handle, the value last inserted under each key, 0 if none
    cow_last        \* the latest cowmap call, its arguments and its result

logVars == <<m_controls, m_features, m_listeners, alive, data_ptr, callbacks,
             erased, last>>

VARIABLES
    \* mcmc_slam
    data,               \* the event log the estimator reads: controls and feature timelines
    initialiser,        \* whether set_initialiser installed another result
    state_estimates,    \* the state edge labels, the increment of timestep t at t + 1
    state_weights,      \* the weight of each state edge
    feature_estimates,  \* the feature edges: feature, parent_timestep, estimate
    feature_weights,    \* the weight of each feature edge
    mcmc_map_estimate,  \* mcmc_slam::map_estimate, the cache of get_feature_map()
    feature_index,      \* feature id -> index in feature_estimates
    next_timestep,      \* the next value expected by timestep
    log_likelihood,     \* the tracked log likelihood
    mcmc_updates,       \* the update() calls timestep() still has to make
    mcmc_last           \* the edge and the outcome of the latest update()

cowVars == <<heap, roots, inserts, contents, cow_last>>

mcmcVars == <<data, initialiser, state_estimates, state_weights, feature_estimates,
              feature_weights, mcmc_map_estimate, feature_index, next_timestep,
              log_likelihood, mcmc_updates, mcmc_last>>

VARIABLES
    \* fastslam
    fs_discard_history,     \* fastslam::discard_history, fixed by the options
    fs_next_timestep,       \* fastslam::next_timestep
    fs_current_control,     \* fastslam::current_control, 0 for boost::none
    fs_seen_features,       \* fastslam::seen_features, <<id, observation>> pairs
    fs_new_features,        \* fastslam::new_features, <<id, observation>> pairs
    fs_num_features,        \* fastslam::num_features
    fs_particles,           \* fastslam::particles: weight, trajectory, features
    fs_trajectory_estimate, \* fastslam::trajectory_estimate, the increments
    fs_map_estimate,        \* fastslam::map_estimate
    fs_observed,            \* the features the log has delivered observations of
    fs_last                 \* what the latest timestep call did and reported

fastVars == <<fs_discard_history, fs_next_timestep, fs_current_control,
              fs_seen_features, fs_new_features, fs_num_features, fs_particles,
              fs_trajectory_estimate, fs_map_estimate, fs_observed, fs_last>>

VARIABLES
    \* g2o_slam
    g2o_state_vertices,         \* g2o_slam::state_vertices
    g2o_feature_vertices,       \* g2o_slam::feature_vertices, sorted by feature id
    g2o_next_vertex_id,         \* g2o_slam::next_vertex_id
    g2o_edges,                  \* the edges added to g2o_slam::optimizer
    g2o_trajectory_estimate,    \* g2o_slam::trajectory_estimate, the increments
    g2o_map_estimate,           \* g2o_slam::map_estimate
    g2o_next_timestep,          \* g2o_slam::next_timestep
    g2o_received,               \* the events the log has delivered
    g2o_last                    \* the latest optimise call and what it returned

g2oVars == <<g2o_state_vertices, g2o_feature_vertices, g2o_next_vertex_id, g2o_edges,
             g2o_trajectory_estimate, g2o_map_estimate, g2o_next_timestep,
             g2o_received, g2o_last>>

VARIABLES
    \* construction of the randomised estimators
    options,        \* the variables_map: per seed option its value, 0 if absent
    fs_random,      \* fastslam::random: the seed the constructor got and the seed used
    mcmc_random     \* mcmc_slam::random: the seed the constructor got and the seed used

seedVars == <<options, fs_random, mcmc_random>>

VARIABLES
    chosen          \* the latest edge selection of mcmc_slam::update: class, weights, draw, index

VARIABLES
    selected        \* the estimator the program was configured to run

VARIABLES
    called,         \* the latest timestep(t) call of an earlier timestep: estimator and t
    driver,         \* the simulation loop: the timestep of the log and the call due next
    sh_nodes,       \* the state_list objects std::make_shared created: state, previous
    sh_heap,        \* the nodes of the particles' cowmaps
    sh_refs,        \* per particle, trajectory.previous and the root of features
    ini_next_timestep,  \* next_timestep of the estimator that initialises g2o_slam
    ini_features        \* the features the particles of that estimator hold

shareVars == <<sh_nodes, sh_heap, sh_refs>>

iniVars == <<ini_next_timestep, ini_features>>

auxVars == <<called, driver, shareVars, iniVars>>

vars == <<logVars, cowVars, mcmcVars, fastVars, g2oVars, seedVars, chosen, selected, auxVars>>

\* a call on one component leaves the objects of the others alone
LogOnly == UNCHANGED <<cowVars, mcmcVars, fastVars, g2oVars, seedVars, chosen, selected,
                       auxVars>>

CowOnly == UNCHANGED <<logVars, mcmcVars, fastVars, g2oVars, seedVars, chosen, selected,
                       auxVars>>

McmcOnly == UNCHANGED <<logVars, cowVars, fastVars, g2oVars, seedVars, chosen, selected,
                        auxVars>>

FastOnly == UNCHANGED <<logVars, cowVars, mcmcVars, g2oVars, seedVars, chosen, selected,
                        auxVars>>

G2oOnly == UNCHANGED <<logVars, cowVars, mcmcVars, fastVars, seedVars, chosen, selected,
                       auxVars>>

SeedOnly == UNCHANGED <<logVars, cowVars, mcmcVars, fastVars, g2oVars, chosen, selected,
                        auxVars>>

SelectionOnly == UNCHANGED <<logVars, cowVars, mcmcVars, fastVars, g2oVars, seedVars,
                             selected, auxVars>>

\* ---------------------------------------------------------------------
\* Sorted associative containers (std::map, boost::container::flat_map):
\* a sequence of <<key, value>> pairs kept in ascending key order.
\* ---------------------------------------------------------------------
NoCall == [estimator |-> "none", timestep |-> 0]

\* the simulation starts with the observations of timestep 0
DriverStart == [timestep |-> 0, stage |-> "observations"]

\* the particle of a new filter: no predecessor, an empty map
ShareInit ==
    /\ sh_nodes = <<>>
    /\ sh_heap = <<>>
    /\ sh_refs = <<[previous |-> 0, features |-> 0]>>

IniInit == ini_next_timestep = 0 /\ ini_features = {}

AuxInit == called = NoCall /\ driver = DriverStart /\ ShareInit /\ IniInit

MapKeys(m) == {m[i][1] : i \in 1..Len(m)}

MapHas(m, k) == \E i \in 1..Len(m) : m[i][1] = k

MapAt(m, k) == m[CHOOSE i \in 1..Len(m) : m[i][1] = k][2]

\* position at which key k is or would be stored (lower_bound)
MapLowerBound(m, k) == 1 + Cardinality({i \in 1..Len(m) : m[i][1] < k})

\* the container after insert(make_pair(k, v)); an existing key is left alone
MapInsertSeq(m, k, v) ==
    IF MapHas(m, k) THEN m
    ELSE LET p == MapLowerBound(m, k)
         IN  SubSeq(m, 1, p - 1) \o <<(<<k, v>>)>> \o SubSeq(m, p, Len(m))

\* the bool of the pair insert() returns
MapInsertFlag(m, k) == ~MapHas(m, k)

\* replace the value stored under an existing key (write through an iterator)
MapAssign(m, k, v) == [i \in 1..Len(m) |-> IF m[i][1] = k THEN <<k, v>> ELSE m[i]]

\* ---------------------------------------------------------------------
\* slam_data
\* ---------------------------------------------------------------------
current_timestep == Len(m_controls)

\* control(t) on the vector ctl, for t < Len(ctl)
control(ctl, t) == ctl[t + 1]

\* feature_observation(f, t) on the feature map fm
feature_observation(fm, f, t) == MapAt(MapAt(fm, f), t)

\* whether feature_observation(f, t) has a value to return
HasObservation(fm, f, t) == MapHas(fm, f) /\ MapHas(MapAt(fm, f), t)

Event(op, t, id, val, flag) ==
    [op |-> op, t |-> t, id |-> id, val |-> val, new_feature |-> flag]

Call(op, id, val) == [op |-> op, id |-> id, val |-> val]

\* foreach_listener stepping past the slot that follows an erased one
RECURSIVE ForeachFromSkipping(_, _, _, _)
ForeachFromSkipping(i, lst, cbs, ev) ==
    IF i > Len(lst) THEN [lst |-> lst, cbs |-> cbs]
    ELSE IF lst[i] \in alive
         THEN ForeachFromSkipping(i + 1, lst, Append(cbs, [l |-> lst[i], ev |-> ev]), ev)
         ELSE ForeachFromSkipping(i + 1,
                                  SubSeq(lst, 1, i - 1) \o SubSeq(lst, i + 1, Len(lst)),
                                  cbs, ev)

\* foreach_listener(f): walk m_listeners from position i; a slot whose listener
\* is alive gets the callback f, a slot whose listener is gone is erased.
RECURSIVE ForeachFrom(_, _, _, _)
ForeachFrom(i, lst, cbs, ev) ==
    IF i > Len(lst) THEN [lst |-> lst, cbs |-> cbs]
    ELSE IF lst[i] \in alive
         THEN ForeachFrom(i + 1, lst, Append(cbs, [l |-> lst[i], ev |-> ev]), ev)
         ELSE ForeachFrom(i, SubSeq(lst, 1, i - 1) \o SubSeq(lst, i + 1, Len(lst)),
                          cbs, ev)

foreach_listener(ev) ==
    LET r == ForeachFrom(1, m_listeners, <<>>, ev)
    IN  /\ m_listeners' = r.lst
        /\ callbacks' = r.cbs
        /\ erased' = Len(m_listeners) - Len(r.lst)

\* a call that reaches no foreach_listener
NoBroadcast == callbacks' = <<>> /\ erased' = 0

add_control(u) ==
    /\ Len(m_controls) < MaxControls
    /\ LET timestep == current_timestep
       IN  /\ m_controls' = Append(m_controls, u)
           /\ foreach_listener(Event("add_control", timestep, 0, u, FALSE))
    /\ last' = Call("add_control", 0, u)
    /\ UNCHANGED <<m_features, alive, data_ptr>>
    /\ LogOnly

\* feature_ins reporting every feature as new
feature_ins_always_new(fm, feature_id) ==
    [map |-> MapInsertSeq(fm, feature_id, <<>>), second |-> TRUE]

\* m_features.insert(make_pair(feature_id, feature_data_type()))
feature_ins(fm, feature_id) ==
    [map |-> MapInsertSeq(fm, feature_id, <<>>),
     second |-> MapInsertFlag(fm, feature_id)]

\* obs_ins storing a second entry under a timestep that is already present
obs_ins_duplicating(tl, t, obs) ==
    LET p == MapLowerBound(tl, t)
    IN  [map |-> SubSeq(tl, 1, p - 1) \o <<(<<t, obs>>)>> \o SubSeq(tl, p, Len(tl)),
         second |-> TRUE]

\* obs_ins assigning over the observation already stored (operator[] semantics)
obs_ins_overwriting(tl, t, obs) ==
    [map |-> IF MapHas(tl, t) THEN MapAssign(tl, t, obs) ELSE MapInsertSeq(tl, t, obs),
     second |-> MapInsertFlag(tl, t)]

\* feature_ins.first->second.insert(make_pair(current_timestep(), obs))
obs_ins(tl, t, obs) ==
    [map |-> MapInsertSeq(tl, t, obs), second |-> MapInsertFlag(tl, t)]

\* number of observations stored in the feature map fm
RECURSIVE StoredObservations(_)
StoredObservations(fm) ==
    IF fm = <<>> THEN 0 ELSE Len(Head(fm)[2]) + StoredObservations(Tail(fm))

add_observation(feature_id, obs) ==
    LET fi == feature_ins(m_features, feature_id)
        oi == obs_ins(MapAt(fi.map, feature_id), current_timestep, obs)
    IN  /\ oi.second => StoredObservations(m_features) < MaxObservations
        /\ m_features' = MapAssign(fi.map, feature_id, oi.map)
        /\ IF ~oi.second
           THEN NoBroadcast /\ UNCHANGED m_listeners
           ELSE foreach_listener(Event("add_observation", current_timestep,
                                       feature_id, obs, fi.second))
        /\ last' = Call("add_observation", feature_id, obs)
        /\ UNCHANGED <<m_controls, alive, data_ptr>>
    /\ LogOnly

end_observation ==
    /\ foreach_listener(Event("end_observation", current_timestep, 0, 0, FALSE))
    /\ last' = Call("end_observation", 0, 0)
    /\ UNCHANGED <<m_controls, m_features, alive, data_ptr>>
    /\ LogOnly

end_simulation ==
    /\ foreach_listener(Event("end_simulation", current_timestep, 0, 0, FALSE))
    /\ last' = Call("end_simulation", 0, 0)
    /\ UNCHANGED <<m_controls, m_features, alive, data_ptr>>
    /\ LogOnly

\* listener::connect
connect(l) ==
    /\ l \in alive
    /\ Len(m_listeners) < MaxSlots
    /\ data_ptr' = [data_ptr EXCEPT ![l] = TRUE]
    /\ m_listeners' = Append(m_listeners, l)
    /\ NoBroadcast
    /\ last' = Call("connect", 0, 0)
    /\ UNCHANGED <<m_controls, m_features, alive>>
    /\ LogOnly

\* slam_data::features_begin: m_features.begin(), as a position in the map
features_begin == 1

\* slam_data::features_end: it returns m_features.begin() as well
features_end == features_begin

\* the feature ids a loop from features_begin() to features_end() visits
FeaturesVisited ==
    [i \in 1..(features_end - features_begin) |-> m_features[features_begin + i - 1][1]]

\* listener::disconnect
disconnect(l) ==
    /\ l \in alive
    /\ data_ptr[l]
    /\ data_ptr' = [data_ptr EXCEPT ![l] = FALSE]
    /\ NoBroadcast
    /\ last' = Call("disconnect", 0, 0)
    /\ UNCHANGED <<m_controls, m_features, m_listeners, alive>>
    /\ LogOnly

\* the last shared_ptr owner of a listener goes away (~listener)
destroy(l) ==
    /\ l \in alive
    /\ alive' = alive \ {l}
    /\ data_ptr' = [data_ptr EXCEPT ![l] = FALSE]
    /\ NoBroadcast
    /\ last' = Call("destroy", 0, 0)
    /\ UNCHANGED <<m_controls, m_features, m_listeners>>
    /\ LogOnly

\* a new log, and the listener objects in live that exist beside it
LogStart(live) ==
    /\ m_controls = <<>>
    /\ m_features = <<>>
    /\ m_listeners = <<>>
    /\ alive = live
    /\ data_ptr = [l \in Listeners |-> FALSE]
    /\ callbacks = <<>>
    /\ erased = 0
    /\ last = Call("init", 0, 0)

LogInit == LogStart(Listeners)

LogNext ==
    \/ \E u \in Values : add_control(u)
    \/ \E f \in FeatureIds, z \in Values : add_observation(f, z)
    \/ end_observation
    \/ end_simulation
    \/ \E l \in Listeners : connect(l)
    \/ \E l \in Listeners : disconnect(l)
    \/ \E l \in Listeners : destroy(l)

\* the calls on a log that records observations of one feature only
SingleFeatureNext ==
    \/ \E u \in Values : add_control(u)
    \/ \E z \in Values : add_observation(CHOOSE f \in FeatureIds : TRUE, z)
    \/ end_observation
    \/ end_simulation
    \/ \E l \in Listeners : connect(l)
    \/ \E l \in Listeners : disconnect(l)
    \/ \E l \in Listeners : destroy(l)

\* ---------------------------------------------------------------------
\* cowmap
\* ---------------------------------------------------------------------
Node(k, v, l, r) == [key |-> k, value |-> v, left |-> l, right |-> r]

\* cowtree::editor: the node under the editor is made private to the tree
\* being edited, so a write through the editor cannot reach another tree
EditorUnshare(h, id) == [heap |-> Append(h, h[id]), node |-> Len(h) + 1]

\* cowtree::editor::insert on an empty subtree: a new leaf
EditorInsert(h, k, v) == [heap |-> Append(h, Node(k, v, 0, 0)), node |-> Len(h) + 1]

\* find_subtree(key): the id of the subtree holding key, 0 if there is none
RECURSIVE find_subtree(_, _, _)
find_subtree(h, id, key) ==
    IF id = 0 THEN 0
    ELSE IF key < h[id].key THEN find_subtree(h, h[id].left, key)
    ELSE IF h[id].key < key THEN find_subtree(h, h[id].right, key)
    ELSE id

\* precondition of get: the key is present
get(h, id, key) == h[find_subtree(h, id, key)].value

count(h, id, key) == IF find_subtree(h, id, key) = 0 THEN 0 ELSE 1

empty(id) == id = 0

\* for_each: the <<key, value>> pairs in the order the visitor is called
RECURSIVE inorder_traverse(_, _)
inorder_traverse(h, id) ==
    IF id = 0 THEN <<>>
    ELSE inorder_traverse(h, h[id].left)
         \o <<(<<h[id].key, h[id].value>>)>>
         \o inorder_traverse(h, h[id].right)

\* insert writing the value into the node as the tree holds it, past the editor
RECURSIVE insert_in_place(_, _, _, _)
insert_in_place(h, id, k, v) ==
    IF id = 0
    THEN LET e == EditorInsert(h, k, v)
         IN  [heap |-> e.heap, node |-> e.node, ret |-> TRUE]
    ELSE IF k = h[id].key
         THEN [heap |-> [h EXCEPT ![id].value = v], node |-> id, ret |-> FALSE]
         ELSE LET u == EditorUnshare(h, id)
                  c == u.node
              IN  IF k < u.heap[c].key
                  THEN LET r == insert_in_place(u.heap, u.heap[c].left, k, v)
                       IN  [heap |-> [r.heap EXCEPT ![c].left = r.node],
                            node |-> c, ret |-> r.ret]
                  ELSE LET r == insert_in_place(u.heap, u.heap[c].right, k, v)
                       IN  [heap |-> [r.heap EXCEPT ![c].right = r.node],
                            node |-> c, ret |-> r.ret]

\* insert leaving the value of a present key alone (std::map::insert semantics)
RECURSIVE insert_keeping(_, _, _, _)
insert_keeping(h, id, k, v) ==
    IF id = 0
    THEN LET e == EditorInsert(h, k, v)
         IN  [heap |-> e.heap, node |-> e.node, ret |-> TRUE]
    ELSE LET u == EditorUnshare(h, id)
             c == u.node
         IN  IF k < u.heap[c].key
             THEN LET r == insert_keeping(u.heap, u.heap[c].left, k, v)
                  IN  [heap |-> [r.heap EXCEPT ![c].left = r.node],
                       node |-> c, ret |-> r.ret]
             ELSE IF u.heap[c].key < k
             THEN LET r == insert_keeping(u.heap, u.heap[c].right, k, v)
                  IN  [heap |-> [r.heap EXCEPT ![c].right = r.node],
                       node |-> c, ret |-> r.ret]
             ELSE [heap |-> u.heap, node |-> c, ret |-> FALSE]

\* insert descending to the right for every key that is not equal
RECURSIVE insert_unordered(_, _, _, _)
insert_unordered(h, id, k, v) ==
    IF id = 0
    THEN LET e == EditorInsert(h, k, v)
         IN  [heap |-> e.heap, node |-> e.node, ret |-> TRUE]
    ELSE LET u == EditorUnshare(h, id)
             c == u.node
         IN  IF k # u.heap[c].key
             THEN LET r == insert_unordered(u.heap, u.heap[c].right, k, v)
                  IN  [heap |-> [r.heap EXCEPT ![c].right = r.node],
                       node |-> c, ret |-> r.ret]
             ELSE [heap |-> [u.heap EXCEPT ![c].value = v], node |-> c, ret |-> FALSE]

\* insert(entry, editor): the heap and the id of the edited subtree after the
\* call, and the bool it returns
RECURSIVE insert(_, _, _, _)
insert(h, id, k, v) ==
    IF id = 0
    THEN LET e == EditorInsert(h, k, v)
         IN  [heap |-> e.heap, node |-> e.node, ret |-> TRUE]
    ELSE LET u == EditorUnshare(h, id)
             c == u.node
         IN  IF k < u.heap[c].key
             THEN LET r == insert(u.heap, u.heap[c].left, k, v)
                  IN  [heap |-> [r.heap EXCEPT ![c].left = r.node],
                       node |-> c, ret |-> r.ret]
             ELSE IF u.heap[c].key < k
             THEN LET r == insert(u.heap, u.heap[c].right, k, v)
                  IN  [heap |-> [r.heap EXCEPT ![c].right = r.node],
                       node |-> c, ret |-> r.ret]
             ELSE [heap |-> [u.heap EXCEPT ![c].value = v], node |-> c, ret |-> FALSE]

CowCall(op, m, k, v, old, ret) ==
    [op |-> op, m |-> m, k |-> k, v |-> v, old |-> old, ret |-> ret]

\* m.insert(key, value)
Insert(m, k, v) ==
    /\ inserts < MaxInserts
    /\ LET r == insert(heap, roots[m], k, v)
       IN  /\ heap' = r.heap
           /\ roots' = [roots EXCEPT ![m] = r.node]
           /\ cow_last' = CowCall("insert", m, k, v, contents[m][k], r.ret)
    /\ inserts' = inserts + 1
    /\ contents' = [contents EXCEPT ![m][k] = v]
    /\ CowOnly

\* dst = src: the copy shares the tree of src
CopyMap(src, dst) ==
    /\ src # dst
    /\ roots' = [roots EXCEPT ![dst] = roots[src]]
    /\ contents' = [contents EXCEPT ![dst] = contents[src]]
    /\ cow_last' = CowCall("copy", dst, 0, 0, 0, FALSE)
    /\ UNCHANGED <<heap, inserts>>
    /\ CowOnly

CowInit ==
    /\ heap = <<>>
    /\ roots = [m \in Handles |-> 0]
    /\ inserts = 0
    /\ contents = [m \in Handles |-> [k \in Keys |-> 0]]
    /\ cow_last = CowCall("init", "m", 0, 0, 0, FALSE)

CowNext ==
    \/ \E m \in Handles, k \in Keys, v \in Values : Insert(m, k, v)
    \/ \E src \in Handles, dst \in Handles : CopyMap(src, dst)

\* ---------------------------------------------------------------------
\* mcmc_slam
\* ---------------------------------------------------------------------
\* state_type: a group that does not commute, here the permutations of three
\* points; feature_type: the points they move
Poses == {<<1, 2, 3>>, <<1, 3, 2>>, <<2, 1, 3>>, <<2, 3, 1>>, <<3, 1, 2>>, <<3, 2, 1>>}

Points == {1, 2, 3}

Zero == <<1, 2, 3>>

\* state + state
Plus(p, q) == <<p[q[1]], p[q[2]], p[q[3]]>>

\* -state
Neg(p) == CHOOSE q \in Poses : Plus(p, q) = Zero

\* state + feature
Move(p, x) == p[x]

Rank(p) == 3 * p[1] + p[2]

\* ControlModel of control u: mean(), the values operator()(random) can return,
\* and log_likelihood(x)
ControlMean(u) == IF u = 1 THEN <<2, 1, 3>> ELSE <<1, 3, 2>>

ControlSamples(u) == {ControlMean(u), IF u = 1 THEN <<2, 3, 1>> ELSE <<3, 1, 2>>}

ControlLogLikelihood(u, x) == 0 - u * Rank(Plus(Neg(ControlMean(u)), x))

\* ObservationModel of observation z
ObsMean(z) == z

ObsSamples(z) == {z, 3}

ObsLogLikelihood(z, x) == 0 - z * ((x + 3 - z) % 3)

\* what the result installed by set_initialiser answers
InitialiserState(t) ==
    IF t % 3 = 0 THEN <<1, 2, 3>> ELSE IF t % 3 = 1 THEN <<2, 3, 1>> ELSE <<3, 1, 2>>

InitialiserFeature(id) == (id % 3) + 1

\* bitree::accumulate(i): the sum of the first i elements
RECURSIVE accumulate_to(_, _)
accumulate_to(se, i) == IF i = 0 THEN Zero ELSE Plus(accumulate_to(se, i - 1), se[i])

\* bitree::accumulate(a, b) = -pose(a) + pose(b)
accumulate(se, a, b) == Plus(Neg(accumulate_to(se, a)), accumulate_to(se, b))

\* slam_data::observations_at(t): the observations recorded at timestep t
RECURSIVE observations_at(_, _)
observations_at(fm, t) ==
    IF fm = <<>> THEN <<>>
    ELSE (IF MapHas(Head(fm)[2], t)
          THEN <<[feature_id |-> Head(fm)[1], observation |-> MapAt(Head(fm)[2], t)]>>
          ELSE <<>>) \o observations_at(Tail(fm), t)

initialiser_available == initialiser

\* the members add_state_edge, add_feature_edge, timestep and update write
Estimator(se, sw, fe, fw, fi, me, ll) ==
    [state_estimates |-> se, state_weights |-> sw, feature_estimates |-> fe,
     feature_weights |-> fw, feature_index |-> fi, map_estimate |-> me,
     log_likelihood |-> ll]

\* the edge importances, by default the dimensions of a control and of an observation
state_dim == 3

feature_dim == 2

\* edge_log_weight: log(edge_dim) - edge_log_likelihood/edge_dim, kept as its two terms
edge_log_weight(edge_log_likelihood, edge_dim) ==
    [log_of |-> edge_dim, minus |-> edge_log_likelihood]

\* std::exp of a log weight: edge_dim * b^(-edge_log_likelihood) with
\* b = exp(1/edge_dim); the powers of b are counted as powers of 2
exp(log_weight) == log_weight.log_of * 2^(0 - log_weight.minus)

\* the overload of a state edge, with the importance of a feature edge
state_edge_log_weight_as_feature(edge_log_likelihood) ==
    edge_log_weight(edge_log_likelihood, feature_dim)

\* the edge_log_weight overload of a state edge
state_edge_log_weight(edge_log_likelihood) == edge_log_weight(edge_log_likelihood, state_dim)

\* the edge_log_weight overload of a feature edge
feature_edge_log_weight(edge_log_likelihood) ==
    edge_log_weight(edge_log_likelihood, feature_dim)

\* bitree::accumulate() of a weight tree: the sum of its entries
RECURSIVE TotalWeight(_)
TotalWeight(w) == IF w = <<>> THEN 0 ELSE w[1] + TotalWeight(Tail(w))

add_state_edge(e) ==
    LET t == Len(e.state_estimates)
        ctl == control(data.controls, t)
        estimate == IF initialiser_available
                    THEN Plus(Neg(InitialiserState(t)), InitialiserState(t + 1))
                    ELSE ControlMean(ctl)
        edge_log_likelihood == ControlLogLikelihood(ctl, estimate)
        edge_weight == exp(edge_log_weight(edge_log_likelihood, state_dim))
    IN  [e EXCEPT !.state_estimates = Append(@, estimate),
                  !.state_weights = Append(@, edge_weight),
                  !.log_likelihood = @ + edge_log_likelihood]

add_feature_edge(e, obs) ==
    LET t == Len(e.state_estimates)
        estimate == IF initialiser_available
                    THEN Move(Neg(InitialiserState(t)), InitialiserFeature(obs.feature_id))
                    ELSE ObsMean(obs.observation)
        f == [id |-> obs.feature_id, parent_timestep |-> t, estimate |-> estimate]
        edge_log_likelihood == ObsLogLikelihood(obs.observation, estimate)
        edge_weight == exp(edge_log_weight(edge_log_likelihood, feature_dim))
    IN  [e EXCEPT !.feature_estimates = Append(@, f),
                  !.feature_weights = Append(@, edge_weight),
                  !.log_likelihood = @ + edge_log_likelihood]

\* the for loop of timestep() adding a feature edge for every observation
RECURSIVE ProcessObservationsAdding(_, _, _)
ProcessObservationsAdding(e, range, nt) ==
    IF range = <<>> THEN e
    ELSE LET obs == Head(range)
             e1 == [e EXCEPT !.feature_index =
                       MapInsertSeq(@, obs.feature_id, Len(e.feature_estimates))]
         IN  ProcessObservationsAdding(
                 [add_feature_edge(e1, obs) EXCEPT !.map_estimate = <<>>],
                 Tail(range), nt)

\* the for loop of timestep() over the observations of next_timestep
RECURSIVE ProcessObservations(_, _, _)
ProcessObservations(e, range, nt) ==
    IF range = <<>> THEN e
    ELSE LET obs == Head(range)
             insertion == [map |-> MapInsertSeq(e.feature_index, obs.feature_id,
                                                Len(e.feature_estimates)),
                           second |-> MapInsertFlag(e.feature_index, obs.feature_id)]
             e1 == [e EXCEPT !.feature_index = insertion.map]
         IN  IF insertion.second
             THEN ProcessObservations(
                      [add_feature_edge(e1, obs) EXCEPT !.map_estimate = <<>>],
                      Tail(range), nt)
             ELSE LET f == e1.feature_estimates[MapAt(insertion.map, obs.feature_id) + 1]
                      seen == Move(accumulate(e1.state_estimates, nt, f.parent_timestep),
                                   f.estimate)
                  IN  ProcessObservations(
                          [e1 EXCEPT !.log_likelihood =
                              @ + ObsLogLikelihood(obs.observation, seen)],
                          Tail(range), nt)

\* the while loop of timestep(t)
RECURSIVE TimestepLoop(_, _, _, _)
TimestepLoop(e, nt, updates, t) ==
    IF nt > t THEN [e |-> e, next_timestep |-> nt, mcmc_updates |-> updates]
    ELSE LET e1 == IF nt > 0 THEN add_state_edge(e) ELSE e
             e2 == ProcessObservations(e1, observations_at(data.features, nt), nt)
         IN  TimestepLoop(e2, nt + 1, updates + mcmc_updates_per_step, t)

\* the loop of obs_likelihood_ratio over the observations in range, counting
\* the observation of the feature edge too
RECURSIVE ObsRatioLoopWithParent(_, _, _, _, _, _)
ObsRatioLoopWithParent(se, feature, range, obs_timestep, new_obs, old_obs) ==
    IF range = <<>> THEN 0
    ELSE LET iter == Head(range)
             state_change == accumulate(se, iter[1], obs_timestep)
             new == Move(state_change, new_obs)
             old == Move(state_change, old_obs)
         IN  ObsLogLikelihood(iter[2], new) - ObsLogLikelihood(iter[2], old)
             + ObsRatioLoopWithParent(se, feature, Tail(range), iter[1], new, old)

\* the loop of obs_likelihood_ratio over the observations in range
RECURSIVE ObsRatioLoop(_, _, _, _, _, _)
ObsRatioLoop(se, feature, range, obs_timestep, new_obs, old_obs) ==
    IF range = <<>> THEN 0
    ELSE LET iter == Head(range)
         IN  IF iter[1] = feature.parent_timestep
             THEN ObsRatioLoop(se, feature, Tail(range), obs_timestep, new_obs, old_obs)
             ELSE LET state_change == accumulate(se, iter[1], obs_timestep)
                      new == Move(state_change, new_obs)
                      old == Move(state_change, old_obs)
                  IN  ObsLogLikelihood(iter[2], new) - ObsLogLikelihood(iter[2], old)
                      + ObsRatioLoop(se, feature, Tail(range), iter[1], new, old)

obs_likelihood_ratio(se, feature, range, obs_timestep, new_obs) ==
    ObsRatioLoop(se, feature, range, obs_timestep, new_obs,
                 Move(accumulate(se, obs_timestep, feature.parent_timestep),
                      feature.estimate))

\* feature.data: the timeline of the feature in the log
FeatureData(feature) == MapAt(data.features, feature.id)

\* edge_log_likelihood_ratio of the state edge at timestep t, summed over the
\* features in fe
RECURSIVE state_edge_log_likelihood_ratio(_, _, _, _)
state_edge_log_likelihood_ratio(se, fe, t, proposed) ==
    IF fe = <<>> THEN 0
    ELSE LET f == Head(fe)
             upto == SelectSeq(FeatureData(f), LAMBDA o : o[1] <= t)
             from == SelectSeq(FeatureData(f), LAMBDA o : o[1] > t)
         IN  (IF t < f.parent_timestep
              THEN obs_likelihood_ratio(se, f, upto, t,
                       Move(Plus(proposed, accumulate(se, t + 1, f.parent_timestep)),
                            f.estimate))
              ELSE obs_likelihood_ratio(se, f, from, t + 1,
                       Move(Plus(Neg(proposed), accumulate(se, t, f.parent_timestep)),
                            f.estimate)))
             + state_edge_log_likelihood_ratio(se, Tail(fe), t, proposed)

feature_edge_log_likelihood_ratio(se, feature, proposed) ==
    obs_likelihood_ratio(se, feature, FeatureData(feature), feature.parent_timestep,
                         proposed)

\* update(state_edge(*this, t), true) with the proposal and the decision drawn
update_state_edge(e, t, proposed, accept) ==
    LET distribution == control(data.controls, t)
        log_ratio == state_edge_log_likelihood_ratio(e.state_estimates,
                         e.feature_estimates, t, proposed)
        old_log_likelihood == ControlLogLikelihood(distribution, e.state_estimates[t + 1])
        new_log_likelihood == ControlLogLikelihood(distribution, proposed)
        new_log_weight == state_edge_log_weight(new_log_likelihood)
        new_weight == exp(new_log_weight)
    IN  IF accept
        THEN [e EXCEPT !.state_estimates[t + 1] = proposed,
                       !.state_weights[t + 1] = new_weight,
                       !.log_likelihood =
                           @ + log_ratio - old_log_likelihood + new_log_likelihood,
                       !.map_estimate = <<>>]
        ELSE e

\* update of a feature edge that leaves map_estimate as it was
update_feature_edge_keeping_map(e, i, proposed, accept) ==
    LET feature == e.feature_estimates[i + 1]
        distribution == MapAt(FeatureData(feature), feature.parent_timestep)
        log_ratio == feature_edge_log_likelihood_ratio(e.state_estimates, feature, proposed)
        old_log_likelihood == ObsLogLikelihood(distribution, feature.estimate)
        new_log_likelihood == ObsLogLikelihood(distribution, proposed)
        new_log_weight == feature_edge_log_weight(new_log_likelihood)
        new_weight == exp(new_log_weight)
    IN  IF accept
        THEN [e EXCEPT !.feature_estimates[i + 1].estimate = proposed,
                       !.feature_weights[i + 1] = new_weight,
                       !.log_likelihood =
                           @ + log_ratio - old_log_likelihood + new_log_likelihood]
        ELSE e

\* update of a feature edge that leaves the weight entry as it was
update_feature_edge_keeping_weight(e, i, proposed, accept) ==
    LET feature == e.feature_estimates[i + 1]
        distribution == MapAt(FeatureData(feature), feature.parent_timestep)
        log_ratio == feature_edge_log_likelihood_ratio(e.state_estimates, feature, proposed)
        old_log_likelihood == ObsLogLikelihood(distribution, feature.estimate)
        new_log_likelihood == ObsLogLikelihood(distribution, proposed)
    IN  IF accept
        THEN [e EXCEPT !.feature_estimates[i + 1].estimate = proposed,
                       !.log_likelihood =
                           @ + log_ratio - old_log_likelihood + new_log_likelihood,
                       !.map_estimate = <<>>]
        ELSE e

\* update(feature_edge(*this, i), true) with the proposal and the decision drawn
update_feature_edge(e, i, proposed, accept) ==
    LET feature == e.feature_estimates[i + 1]
        distribution == MapAt(FeatureData(feature), feature.parent_timestep)
        log_ratio == feature_edge_log_likelihood_ratio(e.state_estimates, feature, proposed)
        old_log_likelihood == ObsLogLikelihood(distribution, feature.estimate)
        new_log_likelihood == ObsLogLikelihood(distribution, proposed)
        new_log_weight == feature_edge_log_weight(new_log_likelihood)
        new_weight == exp(new_log_weight)
    IN  IF accept
        THEN [e EXCEPT !.feature_estimates[i + 1].estimate = proposed,
                       !.feature_weights[i + 1] = new_weight,
                       !.log_likelihood =
                           @ + log_ratio - old_log_likelihood + new_log_likelihood,
                       !.map_estimate = <<>>]
        ELSE e

ThisEstimator ==
    Estimator(state_estimates, state_weights, feature_estimates, feature_weights,
              feature_index, mcmc_map_estimate, log_likelihood)

Becomes(e) ==
    /\ state_estimates' = e.state_estimates
    /\ state_weights' = e.state_weights
    /\ feature_estimates' = e.feature_estimates
    /\ feature_weights' = e.feature_weights
    /\ feature_index' = e.feature_index
    /\ mcmc_map_estimate' = e.map_estimate
    /\ log_likelihood' = e.log_likelihood

NoUpdate == [edge |-> "none", index |-> 0, accepted |-> FALSE]

\* the members of the estimator no call of the driver on the log writes
EstimatorUnchanged ==
    UNCHANGED <<state_estimates, state_weights, feature_estimates, feature_weights,
                mcmc_map_estimate, feature_index, next_timestep, log_likelihood,
                mcmc_updates>>

\* the driver records a control in the log
data_add_control(u) ==
    /\ mcmc_updates = 0
    /\ Len(data.controls) < MaxControls
    /\ data' = [data EXCEPT !.controls = Append(@, u)]
    /\ mcmc_last' = NoUpdate
    /\ UNCHANGED initialiser
    /\ EstimatorUnchanged
    /\ McmcOnly

\* the driver records an observation of the current timestep, before it calls
\* timestep() for that timestep
data_add_observation(feature_id, obs) ==
    /\ mcmc_updates = 0
    /\ next_timestep <= Len(data.controls)
    /\ ~HasObservation(data.features, feature_id, Len(data.controls))
    /\ StoredObservations(data.features) < MaxObservations
    /\ LET fi == feature_ins(data.features, feature_id)
           oi == obs_ins(MapAt(fi.map, feature_id), Len(data.controls), obs)
       IN  data' = [data EXCEPT !.features = MapAssign(fi.map, feature_id, oi.map)]
    /\ mcmc_last' = NoUpdate
    /\ UNCHANGED initialiser
    /\ EstimatorUnchanged
    /\ McmcOnly

set_initialiser(init) ==
    /\ mcmc_updates = 0
    /\ initialiser' = init
    /\ mcmc_last' = NoUpdate
    /\ UNCHANGED data
    /\ EstimatorUnchanged
    /\ McmcOnly

\* timestep(t) up to its update() calls, called by the driver for the current
\* timestep of the log
timestep ==
    /\ mcmc_updates = 0
    /\ LET r == TimestepLoop(ThisEstimator, next_timestep, 0, Len(data.controls))
       IN  /\ Becomes(r.e)
           /\ next_timestep' = r.next_timestep
           /\ mcmc_updates' = r.mcmc_updates
    /\ mcmc_last' = NoUpdate
    /\ UNCHANGED <<data, initialiser>>
    /\ McmcOnly

\* timestep(t) of a timestep below next_timestep, with all of its loops
mcmc_timestep_again(t) ==
    /\ mcmc_updates = 0
    /\ t < next_timestep
    /\ LET r == TimestepLoop(ThisEstimator, next_timestep, 0, t)
       IN  /\ Becomes(r.e)
           /\ next_timestep' = r.next_timestep
           /\ mcmc_updates' = r.mcmc_updates
    /\ called' = [estimator |-> "mcmc_slam", timestep |-> t]
    /\ UNCHANGED <<driver, shareVars, iniVars>>
    /\ UNCHANGED <<data, initialiser, mcmc_last>>
    /\ UNCHANGED <<logVars, cowVars, fastVars, g2oVars, seedVars, chosen, selected>>

\* update() when the draw falls on the state edges: timestep_type timestep is
\* constructed as 0 and 0 < current_timestep(), so the edge is that of timestep 0
update_state ==
    /\ mcmc_updates > 0
    /\ TotalWeight(state_weights) > 0
    /\ \E proposed \in ControlSamples(control(data.controls, 0)), accept \in BOOLEAN :
          /\ Becomes(update_state_edge(ThisEstimator, 0, proposed, accept))
          /\ mcmc_last' = [edge |-> "state", index |-> 0, accepted |-> accept]
    /\ mcmc_updates' = mcmc_updates - 1
    /\ UNCHANGED <<data, initialiser, next_timestep>>
    /\ McmcOnly

\* update() when the draw falls on the feature edges: index is not initialised,
\* so the edge is that of any index
update_feature ==
    /\ mcmc_updates > 0
    /\ TotalWeight(feature_weights) > 0
    /\ \E index \in 0..(Len(feature_estimates) - 1) :
          LET f == feature_estimates[index + 1]
              distribution == MapAt(FeatureData(f), f.parent_timestep)
          IN  \E proposed \in ObsSamples(distribution), accept \in BOOLEAN :
                 /\ Becomes(update_feature_edge(ThisEstimator, index, proposed, accept))
                 /\ mcmc_last' = [edge |-> "feature", index |-> index,
                                   accepted |-> accept]
    /\ mcmc_updates' = mcmc_updates - 1
    /\ UNCHANGED <<data, initialiser, next_timestep>>
    /\ McmcOnly

\* update() when both weight sums are 0: it returns false
update_nothing ==
    /\ mcmc_updates > 0
    /\ TotalWeight(state_weights) = 0
    /\ TotalWeight(feature_weights) = 0
    /\ mcmc_updates' = mcmc_updates - 1
    /\ mcmc_last' = NoUpdate
    /\ UNCHANGED <<data, initialiser, state_estimates, state_weights, feature_estimates,
                   feature_weights, mcmc_map_estimate, feature_index, next_timestep,
                   log_likelihood>>
    /\ McmcOnly

\* mcmc_slam::current_timestep
mcmc_current_timestep == Len(state_estimates)

\* mcmc_slam::get_state
mcmc_get_state(t) == accumulate_to(state_estimates, t)

\* mcmc_slam::get_trajectory
mcmc_get_trajectory == state_estimates

\* mcmc_slam::get_feature
mcmc_get_feature(id) ==
    LET f == feature_estimates[MapAt(feature_index, id) + 1]
    IN  Move(mcmc_get_state(f.parent_timestep), f.estimate)

\* the map get_feature_map returns
mcmc_map_result ==
    IF Len(mcmc_map_estimate) # Len(feature_estimates)
    THEN [i \in 1..Len(feature_index) |->
             LET f == feature_estimates[feature_index[i][2] + 1]
             IN  <<feature_index[i][1],
                   Move(mcmc_get_state(f.parent_timestep), f.estimate)>>]
    ELSE mcmc_map_estimate

\* mcmc_slam::get_feature_map
mcmc_get_feature_map ==
    /\ mcmc_updates = 0
    /\ mcmc_map_estimate' = mcmc_map_result
    /\ mcmc_last' = NoUpdate
    /\ UNCHANGED <<data, initialiser, state_estimates, state_weights, feature_estimates,
                   feature_weights, feature_index, next_timestep, log_likelihood,
                   mcmc_updates>>
    /\ McmcOnly

\* the reading the sensor of this run takes of a feature
Sighting(id) == IF id \in Values THEN id ELSE CHOOSE z \in Values : TRUE

McmcInit ==
    /\ data = [controls |-> <<>>, features |-> <<>>]
    /\ initialiser = FALSE
    /\ state_estimates = <<>>
    /\ state_weights = <<>>
    /\ feature_estimates = <<>>
    /\ feature_weights = <<>>
    /\ mcmc_map_estimate = <<>>
    /\ feature_index = <<>>
    /\ next_timestep = 0
    /\ log_likelihood = 0
    /\ mcmc_updates = 0
    /\ mcmc_last = NoUpdate

McmcNext ==
    \/ \E u \in Values : data_add_control(u)
    \/ \E f \in FeatureIds : data_add_observation(f, Sighting(f))
    \/ \E init \in BOOLEAN : set_initialiser(init)
    \/ timestep
    \/ update_state
    \/ update_feature
    \/ update_nothing
    \/ mcmc_get_feature_map

\* ---------------------------------------------------------------------
\* bitree (the trajectory estimate): the sequence of the increments
\* ---------------------------------------------------------------------
\* bitree::push_back_accumulated: append the increment that makes the new
\* prefix composition equal to x
push_back_accumulated(tree, x) ==
    Append(tree, Plus(Neg(accumulate_to(tree, Len(tree))), x))

\* ---------------------------------------------------------------------
\* particle_filter: a sequence of particles in insertion order.  A weight is
\* kept as a positive integer, the common factor 1/n of a resampled
\* population left out (effective_size and max_weight_particle do not
\* depend on it).
\* ---------------------------------------------------------------------
RECURSIVE SumWeights(_)
SumWeights(ps) ==
    IF ps = <<>> THEN 0 ELSE ps[1].weight + SumWeights(Tail(ps))

RECURSIVE SumSquares(_)
SumSquares(ps) ==
    IF ps = <<>> THEN 0 ELSE ps[1].weight * ps[1].weight + SumSquares(Tail(ps))

\* effective_size() < n * ratio, with effective_size = (sum w)^2 / sum w^2
EffectiveSizeBelow(ps, n, ratio) ==
    SumWeights(ps) * SumWeights(ps) * ratio.den < n * ratio.num * SumSquares(ps)

\* the largest weight, the earliest particle among equals
max_weight_particle(ps) ==
    ps[CHOOSE i \in 1..Len(ps) :
          \A j \in 1..Len(ps) :
              /\ ps[j].weight <= ps[i].weight
              /\ ps[j].weight = ps[i].weight => i <= j]

\* the particle at cumulative weight q / n
SelectParticle(ps, n, q) ==
    CHOOSE j \in 1..Len(ps) :
        /\ n * SumWeights(SubSeq(ps, 1, j)) > q
        /\ \A k \in 1..(j - 1) : n * SumWeights(SubSeq(ps, 1, k)) <= q

\* systematic resampling: the draw u in [0, 1/n) is v = floor(u * n * sum w),
\* particle i is the one at cumulative weight (u + i/n) * sum w, and all
\* weights become equal
resample(ps, v, n) ==
    [i \in 1..n |->
        [ps[SelectParticle(ps, n, v + (i - 1) * SumWeights(ps))]
            EXCEPT !.weight = 1]]

\* the draws of resample
ResampleDraws(ps) == 0..(SumWeights(ps) - 1)

\* update(step_fn): every weight is multiplied by what step_fn returns
update(ps, stepped) ==
    [i \in 1..Len(ps) |->
        [stepped[i].particle EXCEPT !.weight = ps[i].weight * stepped[i].multiplier]]

\* the population of a new filter
InitialParticles ==
    <<[weight |-> 1,
       trajectory |-> [state |-> Zero, previous |-> <<>>],
       features |-> <<>>]>>

\* ---------------------------------------------------------------------
\* fastslam
\* ---------------------------------------------------------------------
\* the option num-particles
num_particles == Cardinality(ParticleSlots)

\* the option resample-threshold, at its default
resample_threshold == [num |-> 3, den |-> 4]

\* the option resample-threshold-min
resample_threshold_min == [num |-> 2, den |-> 3]

\* fastslam::resample_required
resample_required(ps) == EffectiveSizeBelow(ps, num_particles, resample_threshold)

\* whether the filter collapsed: the effective size is below the configured
\* minimum ratio of the particles
Collapsed(ps) == EffectiveSizeBelow(ps, num_particles, resample_threshold_min)

\* the weight multiplier exp(obs + state - proposal log likelihood) of a sample
WeightMultiplier(u, inc) == IF inc = ControlMean(u) THEN 1 ELSE 9

\* the feature estimate a particle in this state makes from an observation
FeatureFrom(state, z) == Move(state, ObsMean(z))

\* cowmap::insert on the contents of the map
features_insert(m, id, est) ==
    IF MapHas(m, id) THEN MapAssign(m, id, est) ELSE MapInsertSeq(m, id, est)

\* fastslam::particle_state_update with the sampled state state + inc.  The
\* trajectory list is the head state and the older states, the oldest first.
particle_state_update(particle, u, inc) ==
    [particle |->
        [particle EXCEPT
            !.trajectory =
                [state |-> Plus(particle.trajectory.state, inc),
                 previous |->
                    IF ~fs_discard_history
                    THEN Append(particle.trajectory.previous, particle.trajectory.state)
                    ELSE particle.trajectory.previous]],
     multiplier |-> WeightMultiplier(u, inc)]

\* the loops without the loop over the particles: the first particle only
RECURSIVE InsertFeaturesInFirst(_, _)
InsertFeaturesInFirst(ps, obs) ==
    IF obs = <<>> THEN ps
    ELSE InsertFeaturesInFirst(
            [ps EXCEPT ![1].features =
                features_insert(ps[1].features, obs[1][1],
                                FeatureFrom(ps[1].trajectory.state, obs[1][2]))],
            Tail(obs))

\* the loops of timestep over the observations of one list
RECURSIVE InsertFeatures(_, _)
InsertFeatures(ps, obs) ==
    IF obs = <<>> THEN ps
    ELSE InsertFeatures(
            [i \in 1..Len(ps) |->
                [ps[i] EXCEPT
                    !.features =
                        features_insert(ps[i].features, obs[1][1],
                                        FeatureFrom(ps[i].trajectory.state, obs[1][2]))]],
            Tail(obs))

\* every features.get (obs.id) of a seen feature finds the feature
SeenPresent(ps, seen) ==
    \A k \in 1..Len(seen), i \in 1..Len(ps) : MapHas(ps[i].features, seen[k][1])

\* what the latest timestep call did and reported: whether every get found
\* its feature, whether it resampled, how many seen features it updated, and
\* whether it told its caller of a collapsed filter (no statement of
\* timestep evaluates filter_collapsed)
Reported(get_ok, resampled, seen) ==
    [get_ok |-> get_ok, resampled |-> resampled, seen |-> seen, collapse |-> FALSE]

\* assert (next_timestep > 0) of fastslam::current_timestep
fs_current_timestep_defined == fs_next_timestep > 0

\* fastslam::current_timestep, which requires next_timestep > 0
fs_current_timestep == fs_next_timestep - 1

\* slam_data delivers control (t, u) with t the timestep it just closed
fs_control_call(u) ==
    /\ fs_current_timestep_defined
    /\ fs_next_timestep <= MaxControls
    /\ fs_current_control = 0
    /\ fs_current_control' = u
    /\ UNCHANGED fs_last
    /\ UNCHANGED <<fs_discard_history, fs_next_timestep, fs_seen_features,
                   fs_new_features, fs_num_features, fs_particles,
                   fs_trajectory_estimate, fs_map_estimate, fs_observed>>

fs_control(u) == fs_control_call(u) /\ FastOnly

\* slam_data delivers observation (t, obs) with t = next_timestep, once per
\* feature and timestep; obs.index() is 0 for the first observation of a feature
fs_observation_call(id, z) ==
    /\ fs_next_timestep > 0 => fs_current_control # 0
    /\ ~MapHas(fs_seen_features \o fs_new_features, id)
    /\ IF id \notin fs_observed
       THEN /\ fs_new_features' = Append(fs_new_features, <<id, z>>)
            /\ UNCHANGED fs_seen_features
       ELSE /\ fs_seen_features' = Append(fs_seen_features, <<id, z>>)
            /\ UNCHANGED fs_new_features
    /\ fs_observed' = fs_observed \cup {id}
    /\ UNCHANGED fs_last
    /\ UNCHANGED <<fs_discard_history, fs_next_timestep, fs_current_control,
                   fs_num_features, fs_particles, fs_trajectory_estimate,
                   fs_map_estimate>>

fs_observation(id, z) == fs_observation_call(id, z) /\ FastOnly

\* timestep that leaves the control it used in current_control
FinishTimestepKeepingControl(ps, resampled) ==
    /\ fs_particles' = InsertFeatures(InsertFeatures(ps, fs_seen_features),
                                      fs_new_features)
    /\ fs_trajectory_estimate' =
          IF fs_next_timestep > 0 /\ fs_discard_history
          THEN push_back_accumulated(fs_trajectory_estimate,
                                     max_weight_particle(ps).trajectory.state)
          ELSE fs_trajectory_estimate
    /\ UNCHANGED fs_current_control
    /\ fs_seen_features' = <<>>
    /\ fs_new_features' = <<>>
    /\ fs_num_features' = fs_num_features + Len(fs_new_features)
    /\ fs_map_estimate' = <<>>
    /\ fs_next_timestep' = fs_next_timestep + 1
    /\ fs_last' = Reported(SeenPresent(ps, fs_seen_features), resampled,
                            Len(fs_seen_features))
    /\ UNCHANGED <<fs_discard_history, fs_observed>>

\* what timestep (next_timestep) leaves behind, given the particles after the
\* state update
FinishTimestep(ps, resampled) ==
    /\ fs_particles' = InsertFeatures(InsertFeatures(ps, fs_seen_features),
                                      fs_new_features)
    /\ fs_trajectory_estimate' =
          IF fs_next_timestep > 0 /\ fs_discard_history
          THEN push_back_accumulated(fs_trajectory_estimate,
                                     max_weight_particle(ps).trajectory.state)
          ELSE fs_trajectory_estimate
    /\ fs_current_control' = 0
    /\ fs_seen_features' = <<>>
    /\ fs_new_features' = <<>>
    /\ fs_num_features' = fs_num_features + Len(fs_new_features)
    /\ fs_map_estimate' = <<>>
    /\ fs_next_timestep' = fs_next_timestep + 1
    /\ fs_last' = Reported(SeenPresent(ps, fs_seen_features), resampled,
                            Len(fs_seen_features))
    /\ UNCHANGED <<fs_discard_history, fs_observed>>

\* fastslam::timestep (next_timestep); an earlier timestep returns at once
fs_timestep_call ==
    IF fs_next_timestep = 0
    THEN FinishTimestep(fs_particles, FALSE)
    ELSE /\ fs_current_control # 0
         /\ \E v \in ResampleDraws(fs_particles) :
               LET required == resample_required(fs_particles)
                   ps == IF required
                         THEN resample(fs_particles, v, num_particles)
                         ELSE fs_particles
               IN  /\ required \/ v = 0
                   /\ \E incs \in [1..Len(ps) -> ControlSamples(fs_current_control)] :
                         FinishTimestep(
                             update(ps, [i \in 1..Len(ps) |->
                                           particle_state_update(
                                               ps[i], fs_current_control, incs[i])]),
                             required)

fs_timestep == fs_timestep_call /\ FastOnly

\* the simulation loop with fastslam as the listener of the log: add_observation
\* for the features seen at the timestep of the log
driver_observation(id) ==
    /\ driver.stage = "observations"
    /\ fs_observation_call(id, Sighting(id))
    /\ UNCHANGED <<driver, called, shareVars, iniVars>>
    /\ UNCHANGED <<logVars, cowVars, mcmcVars, g2oVars, seedVars, chosen, selected>>

\* then timestep(t) for the timestep of the log
driver_timestep ==
    /\ driver.stage = "observations"
    /\ fs_timestep_call
    /\ driver' = [driver EXCEPT !.stage = "control"]
    /\ UNCHANGED <<called, shareVars, iniVars>>
    /\ UNCHANGED <<logVars, cowVars, mcmcVars, g2oVars, seedVars, chosen, selected>>

\* then add_control, which passes the timestep of the log before it appends
driver_control(u) ==
    /\ driver.stage = "control"
    /\ driver.timestep < MaxControls
    /\ fs_control_call(u)
    /\ driver' = [timestep |-> driver.timestep + 1, stage |-> "observations"]
    /\ UNCHANGED <<called, shareVars, iniVars>>
    /\ UNCHANGED <<logVars, cowVars, mcmcVars, g2oVars, seedVars, chosen, selected>>

\* The particles as the program holds them: the head of the trajectory list
\* and the weight by value, trajectory.previous as a std::shared_ptr to a
\* state_list object, features as the root of a cowmap.
\* ---------------------------------------------------------------------
\* the copies particle_filter::resample makes share what they point to
refs_resample(refs, ps, v, n) ==
    [i \in 1..n |-> refs[SelectParticle(ps, n, v + (i - 1) * SumWeights(ps))]]

\* particle_state_update for the particles from i on: previous becomes a new
\* object holding a copy of the head
RECURSIVE PushHeads(_, _, _, _)
PushHeads(nodes, refs, ps, i) ==
    IF i > Len(ps) \/ fs_discard_history THEN [nodes |-> nodes, refs |-> refs]
    ELSE PushHeads(
            Append(nodes, [state |-> ps[i].trajectory.state,
                           previous |-> refs[i].previous]),
            [refs EXCEPT ![i].previous = Len(nodes) + 1], ps, i + 1)

\* particle.features.insert (obs.id, feature) for the particles from i on
RECURSIVE InsertInParticles(_, _, _, _, _)
InsertInParticles(h, refs, ps, obs, i) ==
    IF i > Len(ps) THEN [heap |-> h, refs |-> refs]
    ELSE LET r == insert(h, refs[i].features, obs[1],
                         FeatureFrom(ps[i].trajectory.state, obs[2]))
         IN  InsertInParticles(r.heap, [refs EXCEPT ![i].features = r.node],
                               ps, obs, i + 1)

\* the loops of timestep over the observations of seen_features and new_features
RECURSIVE InsertShared(_, _, _, _)
InsertShared(h, refs, ps, obs) ==
    IF obs = <<>> THEN [heap |-> h, refs |-> refs]
    ELSE LET r == InsertInParticles(h, refs, ps, obs[1], 1)
         IN  InsertShared(r.heap, r.refs, ps, Tail(obs))

\* what timestep does to the objects: refs are the particles after the
\* resampling, old the particles before the state update and ps after it
ShareTimestep(refs, old, ps) ==
    LET pushed == IF fs_next_timestep > 0
                  THEN PushHeads(sh_nodes, refs, old, 1)
                  ELSE [nodes |-> sh_nodes, refs |-> refs]
        inserted == InsertShared(sh_heap, pushed.refs, ps,
                                 fs_seen_features \o fs_new_features)
    IN  /\ sh_nodes' = pushed.nodes
        /\ sh_heap' = inserted.heap
        /\ sh_refs' = inserted.refs

\* fastslam::timestep (next_timestep) on the particles and on their objects
share_timestep ==
    /\ IF fs_next_timestep = 0
       THEN /\ FinishTimestep(fs_particles, FALSE)
            /\ ShareTimestep(sh_refs, fs_particles, fs_particles)
       ELSE /\ fs_current_control # 0
            /\ \E v \in ResampleDraws(fs_particles) :
                  LET required == resample_required(fs_particles)
                      ps == IF required
                            THEN resample(fs_particles, v, num_particles)
                            ELSE fs_particles
                      refs == IF required
                              THEN refs_resample(sh_refs, fs_particles, v, num_particles)
                              ELSE sh_refs
                  IN  /\ required \/ v = 0
                      /\ \E incs \in [1..Len(ps) -> ControlSamples(fs_current_control)] :
                            LET stepped == update(ps, [i \in 1..Len(ps) |->
                                                        particle_state_update(
                                                            ps[i], fs_current_control,
                                                            incs[i])])
                            IN  /\ FinishTimestep(stepped, required)
                                /\ ShareTimestep(refs, ps, stepped)
    /\ UNCHANGED <<called, driver, iniVars>>
    /\ UNCHANGED <<logVars, cowVars, mcmcVars, g2oVars, seedVars, chosen, selected>>

share_control(u) ==
    /\ fs_control_call(u)
    /\ UNCHANGED auxVars
    /\ UNCHANGED <<logVars, cowVars, mcmcVars, g2oVars, seedVars, chosen, selected>>

share_observation(id) ==
    /\ fs_observation_call(id, Sighting(id))
    /\ UNCHANGED auxVars
    /\ UNCHANGED <<logVars, cowVars, mcmcVars, g2oVars, seedVars, chosen, selected>>

ShareNext ==
    \/ \E u \in Values : share_control(u)
    \/ \E id \in FeatureIds : share_observation(id)
    \/ share_timestep

DriverNext ==
    \/ \E id \in FeatureIds : driver_observation(id)
    \/ driver_timestep
    \/ \E u \in Values : driver_control(u)

\* fastslam::timestep (t) of a timestep below next_timestep
fs_timestep_again(t) ==
    /\ t < fs_next_timestep
    /\ called' = [estimator |-> "fastslam", timestep |-> t]
    /\ UNCHANGED <<driver, shareVars, iniVars>>
    /\ UNCHANGED fastVars
    /\ UNCHANGED <<logVars, cowVars, mcmcVars, g2oVars, seedVars, chosen, selected>>

\* the list read without the walk: the head
StateHead(trajectory, n) == trajectory.state

\* the n-th state before the head of a trajectory list
StateBack(trajectory, n) ==
    IF n = 0 THEN trajectory.state
    ELSE trajectory.previous[Len(trajectory.previous) - n + 1]

\* fastslam::get_state
fs_get_state(t) ==
    IF ~fs_discard_history /\ Len(fs_trajectory_estimate) # fs_current_timestep
    THEN StateBack(max_weight_particle(fs_particles).trajectory, fs_current_timestep - t)
    ELSE accumulate_to(fs_trajectory_estimate, t)

\* the loop run to the end of the list, the first node included
states_reversed_all(trajectory) ==
    [k \in 1..(Len(trajectory.previous) + 1) |-> StateBack(trajectory, k - 1)]

\* the loop of get_trajectory: the states of the list nodes that have a
\* predecessor, the latest first
states_reversed(trajectory) ==
    [k \in 1..Len(trajectory.previous) |-> StateBack(trajectory, k - 1)]

\* reverse
Reverse(s) == [k \in 1..Len(s) |-> s[Len(s) - k + 1]]

RECURSIVE PushAll(_, _)
PushAll(tree, states) ==
    IF states = <<>> THEN tree
    ELSE PushAll(push_back_accumulated(tree, states[1]), Tail(states))

\* the tree get_trajectory returns
fs_trajectory_result ==
    IF ~fs_discard_history /\ Len(fs_trajectory_estimate) # fs_current_timestep
    THEN PushAll(<<>>, Reverse(states_reversed(
                                  max_weight_particle(fs_particles).trajectory)))
    ELSE fs_trajectory_estimate

\* fastslam::get_trajectory
fs_get_trajectory ==
    /\ fs_current_timestep_defined
    /\ fs_trajectory_estimate' = fs_trajectory_result
    /\ UNCHANGED fs_last
    /\ UNCHANGED <<fs_discard_history, fs_next_timestep, fs_current_control,
                   fs_seen_features, fs_new_features, fs_num_features,
                   fs_particles, fs_map_estimate, fs_observed>>
    /\ FastOnly

\* the map get_feature_map returns
fs_map_result ==
    IF Len(fs_map_estimate) # fs_num_features
    THEN max_weight_particle(fs_particles).features
    ELSE fs_map_estimate

\* fastslam::get_feature_map
fs_get_feature_map ==
    /\ fs_map_estimate' = fs_map_result
    /\ UNCHANGED fs_last
    /\ UNCHANGED <<fs_discard_history, fs_next_timestep, fs_current_control,
                   fs_seen_features, fs_new_features, fs_num_features,
                   fs_particles, fs_trajectory_estimate, fs_observed>>
    /\ FastOnly

\* fastslam::get_feature
fs_get_feature(id) == MapAt(max_weight_particle(fs_particles).features, id)

\* a new estimator, with or without the option no-history
FastStart(no_history) ==
    /\ fs_discard_history = no_history
    /\ fs_next_timestep = 0
    /\ fs_current_control = 0
    /\ fs_seen_features = <<>>
    /\ fs_new_features = <<>>
    /\ fs_num_features = 0
    /\ fs_particles = InitialParticles
    /\ fs_trajectory_estimate = <<>>
    /\ fs_map_estimate = <<>>
    /\ fs_observed = {}
    /\ fs_last = Reported(TRUE, FALSE, 0)

FastInit == \E no_history \in BOOLEAN : FastStart(no_history)

FastNext ==
    \/ \E u \in Values : fs_control(u)
    \/ \E id \in FeatureIds : fs_observation(id, Sighting(id))
    \/ fs_timestep
    \/ fs_get_trajectory
    \/ fs_get_feature_map

\* ---------------------------------------------------------------------
\* g2o_slam.  A vertex is its id, its estimate and, for a pose vertex,
\* whether it is fixed; an edge is the pair of the ids of its vertices.
\* ---------------------------------------------------------------------
\* the null pointer std::map::operator[] default-constructs
Null == [id |-> -1, estimate |-> 0]

\* the first vertex without setFixed (true)
FirstVertexFree(id) == [id |-> id, estimate |-> Zero, fixed |-> FALSE]

\* the vertex the constructor adds: vertex_state (next_vertex_id++,
\* state_type()) with setFixed (true)
FirstVertex(id) == [id |-> id, estimate |-> Zero, fixed |-> TRUE]

\* vertex_state (id, estimate): a new vertex is not fixed
vertex_state(id, estimate) == [id |-> id, estimate |-> estimate, fixed |-> FALSE]

\* a landmark vertex that does not take the id it is given
vertex_landmark_unnumbered(id, estimate) == [id |-> 0, estimate |-> estimate]

\* vertex_landmark (id, estimate)
vertex_landmark(id, estimate) == [id |-> id, estimate |-> estimate]

\* assert (next_timestep > 0) of g2o_slam::current_timestep
g2o_current_timestep_defined == g2o_next_timestep > 0

\* g2o_slam::current_timestep, which requires next_timestep > 0
g2o_current_timestep == g2o_next_timestep - 1

\* g2o_slam::get_state: state_vertices.at(t)->estimate()
g2o_get_state(t) == g2o_state_vertices[t + 1].estimate

\* g2o_slam::control (t, control) with t the timestep the log just closed
g2o_control(u) ==
    /\ g2o_current_timestep_defined
    /\ g2o_current_timestep = Len(g2o_state_vertices) - 1
    /\ Len(g2o_state_vertices) <= MaxControls
    /\ LET t == g2o_current_timestep
           initial_estimate == Plus(Neg(InitialiserState(t)), InitialiserState(t + 1))
           v0 == g2o_state_vertices[Len(g2o_state_vertices)]
           v1 == vertex_state(g2o_next_vertex_id, Plus(v0.estimate, initial_estimate))
       IN  /\ g2o_state_vertices' = Append(g2o_state_vertices, v1)
           /\ g2o_edges' = g2o_edges \cup {<<v0.id, v1.id>>}
    /\ g2o_next_vertex_id' = g2o_next_vertex_id + 1
    /\ g2o_received' = [g2o_received EXCEPT !.controls = @ + 1]
    /\ UNCHANGED <<g2o_feature_vertices, g2o_trajectory_estimate, g2o_map_estimate,
                   g2o_next_timestep, g2o_last>>
    /\ G2oOnly

\* what feature_vertices[id] returns: the entry, a null one if there was none
FeatureVertexAt(fv, id) == IF MapHas(fv, id) THEN MapAt(fv, id) ELSE Null

\* feature_vertices[id] = v, and the null entry a mere lookup leaves behind
FeatureVertexPut(fv, id, v) ==
    IF MapHas(fv, id) THEN MapAssign(fv, id, v) ELSE MapInsertSeq(fv, id, v)

\* obs.index() == 0: the observation is the first the log holds of the feature
index_is_zero(id) == id \notin g2o_received.features

\* g2o_slam::observation (t, obs) with t = next_timestep, once per feature
\* and timestep; obs.index() is 0 for the first observation of a feature
g2o_observation(id, z) ==
    /\ g2o_next_timestep = Len(g2o_state_vertices) - 1
    /\ id \notin g2o_received.pending
    /\ LET t == g2o_next_timestep
           v0 == g2o_state_vertices[Len(g2o_state_vertices)]
           found == FeatureVertexAt(g2o_feature_vertices, id)
           first == index_is_zero(id)
           initial_estimate == Move(Neg(InitialiserState(t)), InitialiserFeature(id))
           v1 == IF first
                 THEN vertex_landmark(g2o_next_vertex_id, Move(v0.estimate, initial_estimate))
                 ELSE found
       IN  /\ g2o_feature_vertices' = FeatureVertexPut(g2o_feature_vertices, id, v1)
           /\ g2o_next_vertex_id' = g2o_next_vertex_id + (IF first THEN 1 ELSE 0)
           /\ g2o_edges' = g2o_edges \cup {<<v0.id, v1.id>>}
    /\ g2o_received' = [g2o_received EXCEPT !.features = @ \cup {id},
                                            !.pending = @ \cup {id}]
    /\ UNCHANGED <<g2o_state_vertices, g2o_trajectory_estimate, g2o_map_estimate,
                   g2o_next_timestep, g2o_last>>
    /\ G2oOnly

\* timestep (t) that counts the call whatever t is
g2o_timestep_again_counting(t) ==
    /\ t < g2o_next_timestep
    /\ g2o_next_timestep' = g2o_next_timestep + 1
    /\ called' = [estimator |-> "g2o_slam", timestep |-> t]
    /\ UNCHANGED <<driver, shareVars, iniVars>>
    /\ UNCHANGED <<g2o_state_vertices, g2o_feature_vertices, g2o_next_vertex_id,
                   g2o_edges, g2o_trajectory_estimate, g2o_map_estimate,
                   g2o_received, g2o_last>>
    /\ UNCHANGED <<logVars, cowVars, mcmcVars, fastVars, seedVars, chosen, selected>>

\* g2o_slam::timestep (t) of a timestep below next_timestep
g2o_timestep_again(t) ==
    /\ t < g2o_next_timestep
    /\ called' = [estimator |-> "g2o_slam", timestep |-> t]
    /\ UNCHANGED <<driver, shareVars, iniVars>>
    /\ UNCHANGED g2oVars
    /\ UNCHANGED <<logVars, cowVars, mcmcVars, fastVars, seedVars, chosen, selected>>

\* g2o_slam::timestep (next_timestep), called when the log is at that
\* timestep; an earlier timestep returns at once
g2o_timestep ==
    /\ g2o_next_timestep = Len(g2o_state_vertices) - 1
    /\ g2o_next_timestep' = g2o_next_timestep + 1
    /\ g2o_received' = [g2o_received EXCEPT !.pending = {}]
    /\ UNCHANGED <<g2o_state_vertices, g2o_feature_vertices, g2o_next_vertex_id,
                   g2o_edges, g2o_trajectory_estimate, g2o_map_estimate, g2o_last>>
    /\ G2oOnly

\* the estimates optimizer.optimize may leave in a vertex: the optimiser
\* moves the vertices that are not fixed
Nudge == <<2, 1, 3>>

OptimisedStates(v) ==
    IF v.fixed THEN {v} ELSE {v, [v EXCEPT !.estimate = Plus(Nudge, v.estimate)]}

OptimisedFeatures(e) ==
    {e, <<e[1], [e[2] EXCEPT !.estimate = Move(Nudge, e[2].estimate)]>>}

\* the limits optimise is called with
IterationLimits == {0, 1}

\* g2o_slam::optimise (max_iterations), returning the iterations done
g2o_optimise(max_iterations) ==
    IF max_iterations <= 0 \/ Len(g2o_state_vertices) <= 1 \/ g2o_feature_vertices = <<>>
    THEN /\ g2o_last' = [op |-> "optimise", early |-> TRUE,
                         status |-> [iterations |-> 0]]
         /\ UNCHANGED <<g2o_state_vertices, g2o_feature_vertices, g2o_next_vertex_id,
                        g2o_edges, g2o_trajectory_estimate, g2o_map_estimate,
                        g2o_next_timestep, g2o_received>>
         /\ G2oOnly
    ELSE \E iterations \in 0..max_iterations :
           /\ IF iterations = 0
              THEN UNCHANGED <<g2o_state_vertices, g2o_feature_vertices>>
              ELSE /\ g2o_state_vertices' \in
                          {sv \in [1..Len(g2o_state_vertices) ->
                                      UNION {OptimisedStates(g2o_state_vertices[i]) :
                                                i \in 1..Len(g2o_state_vertices)}] :
                              \A i \in 1..Len(g2o_state_vertices) :
                                  sv[i] \in OptimisedStates(g2o_state_vertices[i])}
                   /\ g2o_feature_vertices' \in
                          {fv \in [1..Len(g2o_feature_vertices) ->
                                      UNION {OptimisedFeatures(g2o_feature_vertices[i]) :
                                                i \in 1..Len(g2o_feature_vertices)}] :
                              \A i \in 1..Len(g2o_feature_vertices) :
                                  fv[i] \in OptimisedFeatures(g2o_feature_vertices[i])}
           /\ g2o_trajectory_estimate' = <<>>
           /\ g2o_map_estimate' = <<>>
           /\ g2o_last' = [op |-> "optimise", early |-> FALSE,
                           status |-> [iterations |-> iterations]]
           /\ UNCHANGED <<g2o_next_vertex_id, g2o_edges, g2o_next_timestep,
                          g2o_received>>
           /\ G2oOnly

\* g2o_slam::reinitialise with a result that covers n timesteps and the
\* features of the graph
g2o_reinitialise(n) ==
    /\ n <= Len(g2o_state_vertices) - 1
    /\ g2o_state_vertices' =
          [i \in 1..Len(g2o_state_vertices) |->
              IF 1 <= i - 1 /\ i - 1 <= n
              THEN [g2o_state_vertices[i] EXCEPT !.estimate = InitialiserState(i - 1)]
              ELSE g2o_state_vertices[i]]
    /\ g2o_trajectory_estimate' = <<>>
    /\ g2o_feature_vertices' =
          [i \in 1..Len(g2o_feature_vertices) |->
              <<g2o_feature_vertices[i][1],
                [g2o_feature_vertices[i][2] EXCEPT
                    !.estimate = Move(Neg(InitialiserState(0)),
                                      InitialiserFeature(g2o_feature_vertices[i][1]))]>>]
    /\ g2o_map_estimate' = <<>>
    /\ UNCHANGED <<g2o_next_vertex_id, g2o_edges, g2o_next_timestep, g2o_received,
                   g2o_last>>
    /\ G2oOnly

\* the loop of get_trajectory
RECURSIVE PushStates(_, _, _)
PushStates(tree, t, last_t) ==
    IF t > last_t THEN tree
    ELSE PushStates(push_back_accumulated(tree, g2o_get_state(t)), t + 1, last_t)

\* the tree get_trajectory returns
g2o_trajectory_result ==
    IF Len(g2o_trajectory_estimate) # g2o_current_timestep
    THEN PushStates(<<>>, 1, g2o_current_timestep)
    ELSE g2o_trajectory_estimate

\* g2o_slam::get_trajectory
g2o_get_trajectory ==
    /\ g2o_current_timestep_defined
    /\ g2o_trajectory_estimate' = g2o_trajectory_result
    /\ UNCHANGED <<g2o_state_vertices, g2o_feature_vertices, g2o_next_vertex_id,
                   g2o_edges, g2o_map_estimate, g2o_next_timestep, g2o_received,
                   g2o_last>>
    /\ G2oOnly

\* the map get_feature_map returns
g2o_map_result ==
    IF Len(g2o_map_estimate) # Len(g2o_feature_vertices)
    THEN [i \in 1..Len(g2o_feature_vertices) |->
             <<g2o_feature_vertices[i][1], g2o_feature_vertices[i][2].estimate>>]
    ELSE g2o_map_estimate

\* g2o_slam::get_feature_map
g2o_get_feature_map ==
    /\ g2o_map_estimate' = g2o_map_result
    /\ UNCHANGED <<g2o_state_vertices, g2o_feature_vertices, g2o_next_vertex_id,
                   g2o_edges, g2o_trajectory_estimate, g2o_next_timestep,
                   g2o_received, g2o_last>>
    /\ G2oOnly

\* g2o_slam::get_feature
g2o_get_feature(id) == MapAt(g2o_feature_vertices, id).estimate

\* g2o_slam::g2o_slam
G2oInit ==
    /\ g2o_state_vertices = <<FirstVertex(0)>>
    /\ g2o_feature_vertices = <<>>
    /\ g2o_next_vertex_id = 1
    /\ g2o_edges = {}
    /\ g2o_trajectory_estimate = <<>>
    /\ g2o_map_estimate = <<>>
    /\ g2o_next_timestep = 0
    /\ g2o_received = [controls |-> 0, features |-> {}, pending |-> {}]
    /\ g2o_last = [op |-> "g2o_slam", early |-> FALSE, status |-> [iterations |-> 0]]

\* The initialiser is a fastslam connected to the same log.
\* ---------------------------------------------------------------------
\* the timestep of the log: the number of controls it holds
log_timestep == Len(g2o_state_vertices) - 1

\* fastslam::timestep (t) of the initialiser, called by the simulation loop for
\* the timestep of the log: its particles then hold every feature observed so far
initialiser_timestep ==
    /\ ini_next_timestep = log_timestep
    /\ ini_next_timestep' = ini_next_timestep + 1
    /\ ini_features' = g2o_received.features
    /\ UNCHANGED <<called, driver, shareVars>>
    /\ UNCHANGED <<logVars, cowVars, mcmcVars, fastVars, g2oVars, seedVars, chosen,
                   selected>>

\* the assertions of fastslam::get_state (t) and fastslam::current_timestep
initialiser_get_state_asserts(t) ==
    /\ ini_next_timestep > 0
    /\ t <= ini_next_timestep - 1

\* the precondition of features.get (id) in fastslam::get_feature
initialiser_get_feature_requires(id) == id \in ini_features

\* add_observation of the log reaches g2o_slam before timestep (t) is called
initialised_observation(id) ==
    /\ ini_next_timestep = log_timestep
    /\ g2o_observation(id, Sighting(id))

\* add_control of the log reaches g2o_slam after timestep (t) was called for
\* every listener
initialised_control(u) ==
    /\ ini_next_timestep = log_timestep + 1
    /\ g2o_control(u)

InitialisedNext ==
    \/ \E id \in FeatureIds : initialised_observation(id)
    \/ initialiser_timestep
    \/ g2o_timestep
    \/ \E u \in Values : initialised_control(u)
    \/ \E max_iterations \in IterationLimits : g2o_optimise(max_iterations)
    \/ g2o_get_feature_map

G2oNext ==
    \/ \E u \in Values : g2o_control(u)
    \/ \E id \in FeatureIds : g2o_observation(id, Sighting(id))
    \/ g2o_timestep
    \/ \E max_iterations \in IterationLimits : g2o_optimise(max_iterations)
    \/ \E n \in 0..MaxControls : g2o_reinitialise(n)
    \/ g2o_get_trajectory
    \/ g2o_get_feature_map

\* ---------------------------------------------------------------------
\* Construction of the randomised estimators: the seed of the random source
\* ---------------------------------------------------------------------
Seeds == {1, 2, 3}

SeedOptions == {"fastslam-seed", "mcmc-slam-seed"}

\* a random source that was not constructed yet
NotSeeded == [given |-> 0, seed |-> 0]

\* remember_option (options, key, default_value): the value of the option if
\* it is there, else the default, which is stored under the key
remember_option(opts, key, default_value) ==
    IF opts[key] # 0
    THEN [options |-> opts, value |-> opts[key]]
    ELSE [options |-> [opts EXCEPT ![key] = default_value], value |-> default_value]

\* fastslam::fastslam (options, seed): random (seed)
construct_fastslam(seed) ==
    /\ fs_random = NotSeeded
    /\ fs_random' = [given |-> seed, seed |-> seed]
    /\ UNCHANGED <<options, mcmc_random>>
    /\ SeedOnly

\* mcmc_slam::mcmc_slam (data, options, seed):
\* random (remember_option (options, "mcmc-slam-seed", seed))
construct_mcmc_slam(seed) ==
    /\ mcmc_random = NotSeeded
    /\ LET r == remember_option(options, "mcmc-slam-seed", seed)
       IN  /\ mcmc_random' = [given |-> seed, seed |-> r.value]
           /\ options' = r.options
    /\ UNCHANGED fs_random
    /\ SeedOnly

\* no estimator constructed, no seed option given
SeedStart ==
    /\ options = [o \in SeedOptions |-> 0]
    /\ fs_random = NotSeeded
    /\ mcmc_random = NotSeeded

\* no estimator constructed, under any configuration of the seed options
SeedInit ==
    /\ options \in [SeedOptions -> {0} \cup Seeds]
    /\ fs_random = NotSeeded
    /\ mcmc_random = NotSeeded

SeedNext ==
    \/ \E seed \in Seeds : construct_fastslam(seed)
    \/ \E seed \in Seeds : construct_mcmc_slam(seed)

\* ---------------------------------------------------------------------
\* mcmc_slam::update: the selection of the edge to update, as a function of
\* the edge weights, the uniform draw and, for a feature edge, the value the
\* uninitialised index happens to hold
\* ---------------------------------------------------------------------
EdgeWeights == {1, 2}

\* the weight vectors of 1 to MaxEdges edges
WeightVectors == UNION {[1..n -> EdgeWeights] : n \in 1..MaxEdges}

\* bitree::binary_search (x): the index whose range of cumulative weight
\* holds x, for 0 <= x < accumulate()
binary_search(w, x) ==
    CHOOSE i \in 0..(Len(w) - 1) :
        /\ TotalWeight(SubSeq(w, 1, i)) <= x
        /\ x < TotalWeight(SubSeq(w, 1, i + 1))

\* the loop while (index >= size) index = binary_search (...), entered with
\* index = start: a start within range ends it before any search
SelectionLoop(w, start, x) ==
    IF start >= Len(w) THEN binary_search(w, x) ELSE start

\* the state branch of update(): timestep_type timestep is constructed as 0
select_state_edge(w, x) ==
    /\ x < TotalWeight(w)
    /\ chosen' = [class |-> "state", weights |-> w, draw |-> x,
                  index |-> SelectionLoop(w, 0, x)]
    /\ SelectionOnly

\* the feature branch of update(): std::size_t index is not initialised
select_feature_edge(w, x, garbage) ==
    /\ x < TotalWeight(w)
    /\ chosen' = [class |-> "feature", weights |-> w, draw |-> x,
                  index |-> SelectionLoop(w, garbage, x)]
    /\ SelectionOnly

SelectionInit == chosen = [class |-> "none", weights |-> <<>>, draw |-> 0, index |-> 0]

SelectionNext ==
    \/ \E w \in WeightVectors, x \in 0..(MaxEdges * 2) : select_state_edge(w, x)
    \/ \E w \in WeightVectors, x \in 0..(MaxEdges * 2), garbage \in 0..MaxEdges :
          select_feature_edge(w, x, garbage)

\* ---------------------------------------------------------------------
\* Properties of the event log
\* ---------------------------------------------------------------------
\* the callbacks of the latest call that went to listener l
CallbacksTo(cbs, l) == {i \in 1..Len(cbs) : cbs[i].l = l}

\* a step that runs foreach_listener
BroadcastStep ==
    \/ last'.op \in {"add_control", "end_observation", "end_simulation"}
    \/ /\ last'.op = "add_observation"
       /\ ~HasObservation(m_features, last'.id, Len(m_controls))

\* the arguments the callbacks of the step are to carry
StepEvent ==
    Event(last'.op, Len(m_controls), last'.id, last'.val,
          IF last'.op = "add_observation" THEN ~MapHas(m_features, last'.id) ELSE FALSE)

\* C1: add_control(u) advances current_timestep() by exactly one, control(t)
\* returns u for the timestep t before the call, and every live connected
\* listener receives one add_control callback carrying that t and u.
C1_AddControl ==
    [][last'.op = "add_control" =>
        /\ Len(m_controls') = Len(m_controls) + 1
        /\ control(m_controls', Len(m_controls)) = last'.val
        /\ \A l \in alive : data_ptr[l] =>
              /\ Cardinality(CallbacksTo(callbacks', l)) = 1
              /\ \A i \in CallbacksTo(callbacks', l) :
                    callbacks'[i].ev =
                        Event("add_control", Len(m_controls), 0, last'.val, FALSE)
      ]_vars

\* C2: the new_feature flag passed to listeners by add_observation(feature_id, z)
\* is true exactly when no observation of feature_id was recorded before the
\* call, and the observation is recorded at the log's current_timestep().
C2_NewFeatureFlag ==
    [][last'.op = "add_observation" =>
        LET f == last'.id
            t == Len(m_controls)
            seenBefore == \E s \in 0..MaxControls : HasObservation(m_features, f, s)
        IN  /\ HasObservation(m_features', f, t)
            /\ ~HasObservation(m_features, f, t) =>
                  feature_observation(m_features', f, t) = last'.val
            /\ \A i \in 1..Len(callbacks') :
                  /\ callbacks'[i].ev.op = "add_observation"
                  /\ callbacks'[i].ev.id = f
                  /\ callbacks'[i].ev.t = t
                  /\ callbacks'[i].ev.new_feature = ~seenBefore
      ]_vars

\* a listener was told of a feature seen again at a later timestep
C2_Witness ==
    /\ last.op = "add_observation"
    /\ Len(callbacks) > 0
    /\ callbacks[1].ev.new_feature = FALSE
    /\ \E f \in FeatureIds : ~MapHas(m_features, f)

\* C3: no two stored observations share (feature_id, timestep), and every
\* feature present in the log has at least one observation.
C3_UniqueObservations ==
    /\ \A i, j \in 1..Len(m_features) :
          m_features[i][1] = m_features[j][1] => i = j
    /\ \A i \in 1..Len(m_features) :
          LET tl == m_features[i][2]
          IN  /\ Len(tl) >= 1
              /\ \A a, b \in 1..Len(tl) : tl[a][1] = tl[b][1] => a = b

\* a feature is recorded at two timesteps and add_observation was called again
\* for a recorded pair
C3_Witness ==
    /\ \E i \in 1..Len(m_features) : Len(m_features[i][2]) = 2
    /\ last.op = "add_observation"
    /\ callbacks = <<>>
    /\ Len(m_listeners) > 0 /\ \A i \in 1..Len(m_listeners) : m_listeners[i] \in alive

\* C4: log entries are append-only: what control(t) and feature_observation(f, t)
\* return never changes, and a second add_observation for a recorded
\* (feature_id, current timestep) neither replaces the observation nor
\* notifies listeners.
C4_AppendOnly ==
    [][/\ \A t \in 0..(Len(m_controls) - 1) :
            /\ t < Len(m_controls')
            /\ control(m_controls', t) = control(m_controls, t)
       /\ \A f \in FeatureIds, t \in 0..MaxControls :
            HasObservation(m_features, f, t) =>
              /\ HasObservation(m_features', f, t)
              /\ feature_observation(m_features', f, t)
                   = feature_observation(m_features, f, t)
       /\ (/\ last'.op = "add_observation"
           /\ HasObservation(m_features, last'.id, Len(m_controls))) =>
              /\ m_features' = m_features
              /\ callbacks' = <<>>
              /\ m_listeners' = m_listeners
      ]_vars

\* a recorded observation was offered again with another value while a live
\* listener was registered, and the stored value and the listener were left alone
C4_Witness ==
    /\ last.op = "add_observation"
    /\ HasObservation(m_features, last.id, current_timestep)
    /\ feature_observation(m_features, last.id, current_timestep) # last.val
    /\ callbacks = <<>>
    /\ \E i \in 1..Len(m_listeners) : m_listeners[i] \in alive
    /\ Len(m_controls) > 0

\* C5: a destroyed listener receives no callback, its slots leave m_listeners
\* during the next broadcast, and every live listener registered before or
\* after a dead slot still receives that broadcast.
C5_WeakListeners ==
    [][BroadcastStep =>
        /\ \A i \in 1..Len(callbacks') : callbacks'[i].l \in alive
        /\ \A i \in 1..Len(m_listeners') : m_listeners'[i] \in alive
        /\ m_listeners' = SelectSeq(m_listeners, LAMBDA l : l \in alive)
        /\ erased' = Len(m_listeners) - Len(m_listeners')
        /\ \A i \in 1..Len(m_listeners) : m_listeners[i] \in alive =>
              \E j \in 1..Len(callbacks') :
                 /\ callbacks'[j].l = m_listeners[i]
                 /\ callbacks'[j].ev = StepEvent
      ]_vars

\* a broadcast erased a dead slot and still reached a live listener
C5_Witness ==
    /\ erased > 0
    /\ Len(callbacks) > 0
    /\ alive # Listeners

\* C6: the callbacks a connected listener receives are exactly the broadcasting
\* calls made since it connected, each once and in order, with non-decreasing
\* timestep arguments.
C6_CallbackSequence ==
    [][/\ Len(m_controls') >= Len(m_controls)
       /\ \A l \in alive : data_ptr[l] =>
            IF BroadcastStep
            THEN /\ Cardinality(CallbacksTo(callbacks', l)) = 1
                 /\ \A i \in CallbacksTo(callbacks', l) :
                       callbacks'[i].ev = StepEvent
            ELSE CallbacksTo(callbacks', l) = {}
      ]_vars

\* ---------------------------------------------------------------------
\* Properties of cowmap
\* ---------------------------------------------------------------------
\* what a caller can observe of the map rooted at id: get and count of every
\* key, empty(), and the for_each sequence
Observe(h, id) ==
    [gets |-> [k \in Keys |-> IF count(h, id, k) = 1 THEN get(h, id, k) ELSE 0],
     counts |-> [k \in Keys |-> count(h, id, k)],
     empty |-> empty(id),
     visits |-> inorder_traverse(h, id)]

\* the ids of the nodes of the tree rooted at id
RECURSIVE NodesOf(_, _)
NodesOf(h, id) ==
    IF id = 0 THEN {}
    ELSE {id} \cup NodesOf(h, h[id].left) \cup NodesOf(h, h[id].right)

\* C7: an insert into one map leaves every other map observationally
\* unchanged, also a map that shares its tree and already holds the key.
C7_Persistence ==
    [][cow_last'.op = "insert" =>
         \A m \in Handles \ {cow_last'.m} :
            /\ roots'[m] = roots[m]
            /\ Observe(heap', roots'[m]) = Observe(heap, roots[m])
      ]_vars

\* an insert overwrote a key in one map while the other map, which still
\* shares a subtree with it, keeps another value under that key
C7_Witness ==
    /\ cow_last.op = "insert"
    /\ cow_last.ret = FALSE
    /\ \E m \in Handles \ {cow_last.m} :
          /\ count(heap, roots[m], cow_last.k) = 1
          /\ get(heap, roots[m], cow_last.k) # cow_last.v
          /\ NodesOf(heap, roots[m]) \cap NodesOf(heap, roots[cow_last.m]) # {}

\* C8: on every map an insert produced (and on the empty map), insert(k, v1)
\* followed by insert(k, v2) yields the same map as a single insert(k, v2);
\* get(k) returns the value inserted last, the second insert returns false and
\* the first insert returns true exactly for a new key.
C8_Overwrite ==
    cow_last.op # "copy" =>
        \A k \in Keys, v1 \in Values, v2 \in Values :
            LET root == roots[cow_last.m]
                first == insert(heap, root, k, v1)
                second == insert(first.heap, first.node, k, v2)
                single == insert(heap, root, k, v2)
            IN  /\ Observe(second.heap, second.node) = Observe(single.heap, single.node)
                /\ get(second.heap, second.node, k) = v2
                /\ second.ret = FALSE
                /\ first.ret = (count(heap, root, k) = 0)

\* a map of two keys had the value of one of them replaced by another value
C8_Witness ==
    /\ cow_last.op = "insert"
    /\ cow_last.ret = FALSE
    /\ cow_last.old # 0 /\ cow_last.old # cow_last.v
    /\ get(heap, roots[cow_last.m], cow_last.k) = cow_last.v
    /\ Len(inorder_traverse(heap, roots[cow_last.m])) >= 2

\* the keys inserted into map m, in ascending order
RECURSIVE Ascending(_, _)
Ascending(c, S) ==
    IF S = {} THEN <<>>
    ELSE LET k == CHOOSE x \in S : \A y \in S : x <= y
         IN  (IF c[k] # 0 THEN <<(<<k, c[k]>>)>> ELSE <<>>) \o Ascending(c, S \ {k})

\* C9: for_each visits every inserted key once, in strictly ascending order,
\* with its current value; count is 1 exactly for the inserted keys; empty()
\* holds exactly when nothing was inserted; every node keeps the search-tree
\* ordering.
C9_InOrder ==
    \A m \in Handles :
        /\ inorder_traverse(heap, roots[m]) = Ascending(contents[m], Keys)
        /\ \A k \in Keys : count(heap, roots[m], k) = (IF contents[m][k] # 0 THEN 1 ELSE 0)
        /\ empty(roots[m]) <=> \A k \in Keys : contents[m][k] = 0
        /\ \A n \in NodesOf(heap, roots[m]) :
              /\ \A l \in NodesOf(heap, heap[n].left) : heap[l].key < heap[n].key
              /\ \A r \in NodesOf(heap, heap[n].right) : heap[n].key < heap[r].key

\* a map holds three keys that were not inserted in ascending order
C9_Witness ==
    \E m \in Handles :
        /\ Len(inorder_traverse(heap, roots[m])) = 3
        /\ heap[roots[m]].left # 0
        /\ cow_last.op = "insert" /\ cow_last.m = m

\* ---------------------------------------------------------------------
\* Properties of mcmc_slam
\* ---------------------------------------------------------------------
\* the sum over the state edges of control(t).log_likelihood(label of t)
RECURSIVE StateEdgesLogLikelihood(_)
StateEdgesLogLikelihood(t) ==
    IF t = 0 THEN 0
    ELSE StateEdgesLogLikelihood(t - 1)
         + ControlLogLikelihood(control(data.controls, t - 1), state_estimates[t])

\* the sum over the processed observations in timeline tl of feature f
RECURSIVE TimelineLogLikelihood(_, _)
TimelineLogLikelihood(f, tl) ==
    IF tl = <<>> THEN 0
    ELSE (IF Head(tl)[1] < next_timestep
          THEN ObsLogLikelihood(Head(tl)[2],
                   Move(accumulate(state_estimates, Head(tl)[1], f.parent_timestep),
                        f.estimate))
          ELSE 0) + TimelineLogLikelihood(f, Tail(tl))

RECURSIVE ObservationsLogLikelihood(_)
ObservationsLogLikelihood(fe) ==
    IF fe = <<>> THEN 0
    ELSE TimelineLogLikelihood(Head(fe), MapAt(data.features, Head(fe).id))
         + ObservationsLogLikelihood(Tail(fe))

FullLogLikelihood ==
    StateEdgesLogLikelihood(Len(state_estimates))
    + ObservationsLogLikelihood(feature_estimates)

\* C10: after timestep() and after every accepted or rejected update step the
\* tracked log_likelihood equals the full recomputation: the sum over the state
\* edges of the control's log_likelihood of the label, plus the sum over every
\* processed observation (the feature edge included) of its log_likelihood at
\* the feature's estimate carried from the parent frame to the frame of the
\* observation; every feature with a processed observation has one estimate.
C10_LogLikelihood ==
    /\ log_likelihood = FullLogLikelihood
    /\ \A i \in 1..Len(data.features) :
          (\E j \in 1..Len(data.features[i][2]) :
              data.features[i][2][j][1] < next_timestep)
          => Cardinality({k \in 1..Len(feature_estimates) :
                             feature_estimates[k].id = data.features[i][1]}) = 1

\* an accepted update changed the label of the state edge while a feature seen
\* before and after that edge is in the map
C10_Witness ==
    /\ mcmc_last.edge = "state" /\ mcmc_last.accepted
    /\ state_estimates[1] # ControlMean(control(data.controls, 0))
    /\ \E k \in 1..Len(feature_estimates) :
          /\ feature_estimates[k].parent_timestep = 0
          /\ HasObservation(data.features, feature_estimates[k].id, 1)
    /\ log_likelihood # 0

\* a step of the loop 'while (mcmc_updates--) update();'
UpdateStep == mcmc_updates > 0 /\ mcmc_updates' = mcmc_updates - 1

\* the sequences differ at most at position i
SameExceptAt(old, new, i) ==
    /\ Len(new) = Len(old)
    /\ \A k \in 1..Len(old) : k # i => new[k] = old[k]

\* the weight update() computes for the label of state edge t
StateEdgeWeight(se, t) ==
    exp(edge_log_weight(ControlLogLikelihood(control(data.controls, t), se[t + 1]),
                        state_dim))

\* the weight update() computes for the label of feature edge i
FeatureEdgeWeight(fe, i) ==
    exp(edge_log_weight(
            ObsLogLikelihood(MapAt(FeatureData(fe[i + 1]), fe[i + 1].parent_timestep),
                             fe[i + 1].estimate),
            feature_dim))

AcceptedStateUpdate(t) ==
    /\ state_estimates'[t + 1] \in ControlSamples(control(data.controls, t))
    /\ SameExceptAt(state_estimates, state_estimates', t + 1)
    /\ SameExceptAt(state_weights, state_weights', t + 1)
    /\ state_weights'[t + 1] = StateEdgeWeight(state_estimates', t)
    /\ UNCHANGED <<feature_estimates, feature_weights>>

AcceptedFeatureUpdate(i) ==
    /\ feature_estimates'[i + 1].estimate \in
          ObsSamples(MapAt(FeatureData(feature_estimates[i + 1]),
                           feature_estimates[i + 1].parent_timestep))
    /\ feature_estimates'[i + 1] =
          [feature_estimates[i + 1] EXCEPT !.estimate = feature_estimates'[i + 1].estimate]
    /\ SameExceptAt(feature_estimates, feature_estimates', i + 1)
    /\ SameExceptAt(feature_weights, feature_weights', i + 1)
    /\ feature_weights'[i + 1] = FeatureEdgeWeight(feature_estimates', i)
    /\ UNCHANGED <<state_estimates, state_weights>>

\* C21: an accepted update overwrites the label of the chosen edge and its own
\* weight entry with the proposal and the proposal's weight, adjusts
\* log_likelihood by the change of the full log likelihood and clears the cached
\* feature map, and leaves every other label and weight as it was; a rejected
\* update leaves every label, every weight and log_likelihood as they were; with
\* both weight totals 0 update() changes nothing and returns false
C21_UpdateEffect ==
    [][UpdateStep =>
          /\ mcmc_last'.accepted =>
                /\ mcmc_last'.edge = "state" => AcceptedStateUpdate(mcmc_last'.index)
                /\ mcmc_last'.edge = "feature" => AcceptedFeatureUpdate(mcmc_last'.index)
                /\ mcmc_last'.edge \in {"state", "feature"}
                /\ log_likelihood' - log_likelihood
                      = FullLogLikelihood' - FullLogLikelihood
                /\ mcmc_map_estimate' = <<>>
          /\ ~mcmc_last'.accepted =>
                UNCHANGED <<state_estimates, state_weights, feature_estimates,
                            feature_weights, log_likelihood>>
          /\ (TotalWeight(state_weights) = 0 /\ TotalWeight(feature_weights) = 0) =>
                /\ ~mcmc_last'.accepted
                /\ UNCHANGED <<state_estimates, state_weights, feature_estimates,
                               feature_weights, feature_index, mcmc_map_estimate,
                               log_likelihood, next_timestep, data>>
      ]_vars

\* an accepted update gave one of two feature edges a label other than the one
\* it was created with, and a state edge exists too
C21_Witness ==
    /\ mcmc_last.edge = "feature" /\ mcmc_last.accepted
    /\ Len(feature_estimates) = 2
    /\ Len(state_estimates) >= 1
    /\ ~initialiser
    /\ LET f == feature_estimates[mcmc_last.index + 1]
       IN  f.estimate # ObsMean(MapAt(FeatureData(f), f.parent_timestep))

\* C22: the weight trees stay aligned with the edge labels: state_weights has one
\* entry per state edge, as many as current_timestep(), feature_weights one per
\* feature edge, and each entry is exp(log(d) - log_likelihood(label)/d) of the
\* current label of its own edge, d being the importance of that kind of edge
C22_WeightsAligned ==
    /\ Len(state_weights) = mcmc_current_timestep
    /\ Len(state_weights) = Len(state_estimates)
    /\ Len(feature_weights) = Len(feature_estimates)
    /\ \A t \in 0..(Len(state_estimates) - 1) :
          state_weights[t + 1] = StateEdgeWeight(state_estimates, t)
    /\ \A i \in 0..(Len(feature_estimates) - 1) :
          feature_weights[i + 1] = FeatureEdgeWeight(feature_estimates, i)

\* an accepted update moved the state edge off the label and the weight it was
\* created with, while a feature edge exists
C22_Witness ==
    /\ mcmc_last.edge = "state" /\ mcmc_last.accepted
    /\ ~initialiser
    /\ Len(feature_weights) >= 1
    /\ LET ctl == control(data.controls, 0)
       IN  /\ state_estimates[1] # ControlMean(ctl)
           /\ state_weights[1]
                 # exp(edge_log_weight(ControlLogLikelihood(ctl, ControlMean(ctl)),
                                       state_dim))

\* the features with an observation at a timestep that timestep() has processed
ProcessedFeatures ==
    {data.features[i][1] : i \in {k \in 1..Len(data.features) :
        \E j \in 1..Len(data.features[k][2]) : data.features[k][2][j][1] < next_timestep}}

\* the least timestep of the timeline of a feature in the log
FirstObserved(id) == MapAt(data.features, id)[1][1]

FeatureEdges ==
    /\ Len(feature_index) = Len(feature_estimates)
    /\ MapKeys(feature_index) = ProcessedFeatures
    /\ {feature_index[i][2] : i \in 1..Len(feature_index)}
          = 0..(Len(feature_estimates) - 1)
    /\ \A i \in 1..Len(feature_index) :
          LET f == feature_estimates[feature_index[i][2] + 1]
          IN  /\ f.id = feature_index[i][1]
              /\ f.parent_timestep = FirstObserved(f.id)
              /\ f.parent_timestep <= mcmc_current_timestep

FeatureEdgesStay ==
    /\ Len(feature_estimates') >= Len(feature_estimates)
    /\ \A k \in 1..Len(feature_estimates) :
          /\ feature_estimates'[k].id = feature_estimates[k].id
          /\ feature_estimates'[k].parent_timestep = feature_estimates[k].parent_timestep
    /\ \A i \in 1..Len(feature_index) :
          /\ MapHas(feature_index', feature_index[i][1])
          /\ MapAt(feature_index', feature_index[i][1]) = feature_index[i][2]

\* C23: there is exactly one feature edge per observed feature: feature_index
\* maps the observed ids one-to-one onto the indices 0..F-1 of feature_estimates,
\* the parent_timestep of each entry is the least timestep of the feature's
\* timeline in the log and at most current_timestep(), and no later call changes
\* the feature, the index or the parent_timestep of an entry
C23_OneFeatureEdge == []FeatureEdges /\ [][FeatureEdgesStay]_vars

\* a feature observed at timesteps 0 and 1, both processed, has the one edge
\* whose parent is timestep 0
C23_Witness ==
    /\ next_timestep = 2
    /\ Len(feature_estimates) = 1
    /\ feature_estimates[1].parent_timestep = 0
    /\ HasObservation(data.features, feature_estimates[1].id, 0)
    /\ HasObservation(data.features, feature_estimates[1].id, 1)

\* a timestep(t) call of an earlier timestep returned
EarlierTimestepCall == called' # called

\* C25: timestep(t) with t below next_timestep changes nothing in any of the
\* estimators: no particle, edge, vertex, weight, cache, log_likelihood or
\* next_timestep, and it makes no update and no resampling; so a second
\* timestep(t) after the first changes nothing. A call that advances
\* next_timestep leaves it at current_timestep() + 1
C25_TimestepOnce ==
    [][/\ EarlierTimestepCall => UNCHANGED <<mcmcVars, fastVars, g2oVars>>
       /\ next_timestep' # next_timestep =>
             /\ next_timestep' = Len(state_estimates') + 1
             /\ next_timestep' > next_timestep
       /\ fs_next_timestep' # fs_next_timestep =>
             /\ fs_next_timestep' = fs_next_timestep + 1
             /\ fs_next_timestep' > 0
       /\ g2o_next_timestep' # g2o_next_timestep =>
             /\ g2o_next_timestep' = g2o_next_timestep + 1
             /\ g2o_next_timestep' = Len(g2o_state_vertices')
      ]_vars

\* mcmc_slam got timestep(1) again after it had processed timestep 1 with a
\* state edge, a feature edge and its updates
C25_Witness ==
    /\ called = [estimator |-> "mcmc_slam", timestep |-> 1]
    /\ next_timestep = 2
    /\ Len(state_estimates) = 1
    /\ Len(feature_estimates) >= 1
    /\ mcmc_updates = 0

\* the assertions of fastslam::observation, timestep and control for timestep t
observation_asserts(t) == t = fs_next_timestep

timestep_asserts(t) == t = fs_next_timestep /\ (t > 0 => fs_current_control # 0)

control_asserts(t) ==
    /\ fs_current_timestep_defined
    /\ t = fs_current_timestep
    /\ fs_current_control = 0

CallsMeetAssertions ==
    /\ driver.stage = "observations" =>
          /\ observation_asserts(driver.timestep)
          /\ timestep_asserts(driver.timestep)
    /\ driver.stage = "control" => control_asserts(driver.timestep)

ControlConsumed ==
    (fs_next_timestep' # fs_next_timestep /\ fs_next_timestep > 0) =>
        fs_current_control # 0 /\ fs_current_control' = 0

\* C26: with the driver calling, for t = 0, 1, 2, ..., the observations of t, then
\* timestep(t), then the control that leads to t + 1, no assertion of fastslam
\* fails: an observation arrives with t = next_timestep, timestep(t) with
\* t = next_timestep and, for t > 0, with a control pending that it consumes, and
\* a control arrives with t = current_timestep() while none is pending
C26_ProtocolSafety == []CallsMeetAssertions /\ [][ControlConsumed]_vars

\* the loop is at the control call of timestep 1, after timestep(1) used the
\* control of timestep 0 and saw a feature again
C26_Witness ==
    /\ driver = [timestep |-> 1, stage |-> "control"]
    /\ fs_next_timestep = 2
    /\ fs_last.seen > 0

\* the states reached from a state_list object through previous, the oldest first
RECURSIVE Chain(_, _)
Chain(nodes, id) ==
    IF id = 0 THEN <<>> ELSE Append(Chain(nodes, nodes[id].previous), nodes[id].state)

\* every particle observes, through its pointers, its own past states and its
\* own feature estimates, and in history mode one list node per timestep
ParticlesIsolated ==
    /\ Len(sh_refs) = Len(fs_particles)
    /\ \A i \in 1..Len(sh_refs) :
          /\ Chain(sh_nodes, sh_refs[i].previous) = fs_particles[i].trajectory.previous
          /\ inorder_traverse(sh_heap, sh_refs[i].features) = fs_particles[i].features
          /\ (~fs_discard_history /\ fs_next_timestep > 0) =>
                Len(Chain(sh_nodes, sh_refs[i].previous)) + 1 = fs_next_timestep
          /\ fs_discard_history => sh_refs[i].previous = 0

\* no state_list object is modified, and what was observable through the
\* pointers of a particle stays observable through them
ObjectsKept ==
    /\ \A id \in 1..Len(sh_nodes) : sh_nodes'[id] = sh_nodes[id]
    /\ \A i \in 1..Len(sh_refs) :
          /\ Chain(sh_nodes', sh_refs[i].previous) = Chain(sh_nodes, sh_refs[i].previous)
          /\ inorder_traverse(sh_heap', sh_refs[i].features)
                = inorder_traverse(sh_heap, sh_refs[i].features)

ControlHandled == Len(g2o_state_vertices') = Len(g2o_state_vertices) + 1

\* g2o_slam::observation added the vertices of these features
FirstObservations == MapKeys(g2o_feature_vertices') \ MapKeys(g2o_feature_vertices)

\* C27: whenever g2o_slam handles control(t) the initialiser meets the
\* precondition of get_state(t + 1), and whenever it handles the first
\* observation of a feature at t the initialiser meets those of get_state(t) and
\* get_feature(id); the new vertex is the last pose of the graph composed with
\* the relative estimate of the initialiser
C27_InitialiserReady ==
    [][/\ ControlHandled =>
             /\ initialiser_get_state_asserts(log_timestep)
             /\ initialiser_get_state_asserts(log_timestep + 1)
             /\ g2o_state_vertices'[Len(g2o_state_vertices')].estimate
                   = Plus(g2o_state_vertices[Len(g2o_state_vertices)].estimate,
                          Plus(Neg(InitialiserState(log_timestep)),
                               InitialiserState(log_timestep + 1)))
       /\ \A id \in FirstObservations :
             /\ initialiser_get_state_asserts(log_timestep)
             /\ initialiser_get_feature_requires(id)
             /\ MapAt(g2o_feature_vertices', id).estimate
                   = Move(g2o_state_vertices[Len(g2o_state_vertices)].estimate,
                          Move(Neg(InitialiserState(log_timestep)),
                               InitialiserFeature(id)))
      ]_vars

\* the map has one entry for each of the features known and no other, and
\* the entry of a feature is what get_feature returns for it
MapCoherent(map, known, get_feature(_)) ==
    /\ MapKeys(map) = known
    /\ Len(map) = Cardinality(known)
    /\ \A i \in 1..Len(map) : map[i][2] = get_feature(map[i][1])

\* the features an estimator knows: those of the observations it has
\* processed, which for g2o_slam is on delivery and for the others in timestep
mcmc_known_features == ProcessedFeatures
fs_known_features == fs_observed \ MapKeys(fs_new_features)
g2o_known_features == g2o_received.features

\* C28: between operations the map get_feature_map returns, cached or not,
\* has exactly one entry per known feature and each entry is what
\* get_feature returns then, for mcmc_slam, fastslam and g2o_slam
C28_CacheCoherent ==
    /\ MapCoherent(mcmc_map_result, mcmc_known_features, mcmc_get_feature)
    /\ MapCoherent(fs_map_result, fs_known_features, fs_get_feature)
    /\ MapCoherent(g2o_map_result, g2o_known_features, g2o_get_feature)

\* a cached map is in use after an accepted update has moved a state that
\* a feature hangs from, so the cache was filled again after it
C28_Witness ==
    /\ mcmc_map_estimate # <<>>
    /\ Len(mcmc_map_estimate) = Len(feature_estimates)
    /\ \E t \in 1..Len(state_estimates) :
          /\ state_estimates[t] # ControlMean(control(data.controls, t - 1))
          /\ state_estimates[t]
                # Plus(Neg(InitialiserState(t - 1)), InitialiserState(t))
          /\ \E i \in 1..Len(feature_estimates) :
                feature_estimates[i].parent_timestep >= t

\* the estimators the program can run
Estimators == {"fastslam", "mcmc_slam", "g2o_slam"}

\* C29: a loop from features_begin() to features_end() visits every feature
\* with a recorded observation exactly once, in ascending order of id
C29_FeatureIteration ==
    /\ Len(FeaturesVisited) = Len(m_features)
    /\ {FeaturesVisited[i] : i \in 1..Len(FeaturesVisited)} = MapKeys(m_features)
    /\ \A i, j \in 1..Len(FeaturesVisited) :
          i < j => FeaturesVisited[i] < FeaturesVisited[j]

\* C30: a broadcast reaches every live listener that was connected exactly
\* once, however often connect() was called on it and whatever listeners
\* were dropped, and it does not reach a live listener that disconnected
C30_ExactlyOnce ==
    [][BroadcastStep =>
          \A l \in alive :
              /\ (data_ptr[l] /\ \E i \in 1..Len(m_listeners) : m_listeners[i] = l)
                    => Cardinality(CallbacksTo(callbacks', l)) = 1
              /\ ~data_ptr[l] => CallbacksTo(callbacks', l) = {}
      ]_vars

\* ---------------------------------------------------------------------
\* Properties of FastSLAM
\* ---------------------------------------------------------------------
\* the features observed at the timesteps FastSLAM has processed
ObservedSoFar == fs_observed \ MapKeys(fs_new_features)

\* C11: after every timestep call of FastSLAM, resampling or not, the feature
\* map of every particle, so of max_weight_particle(), and the map that
\* get_feature_map() returns hold exactly the feature ids observed at the
\* timesteps processed so far, and every features.get of a seen feature
\* found its feature
C11_FeatureIds ==
    /\ \A i \in 1..Len(fs_particles) :
          MapKeys(fs_particles[i].features) = ObservedSoFar
    /\ MapKeys(max_weight_particle(fs_particles).features) = ObservedSoFar
    /\ MapKeys(fs_map_result) = ObservedSoFar
    /\ fs_last.get_ok

\* a timestep that resampled and updated a seen feature beside a new one has
\* left a particle other than the first with the largest weight
C11_Witness ==
    /\ fs_last.resampled
    /\ fs_last.seen > 0
    /\ fs_observed = FeatureIds
    /\ fs_new_features = <<>>
    /\ max_weight_particle(fs_particles) # fs_particles[1]

\* C16: whenever the effective size of the full particle set of FastSLAM is
\* below the configured minimum ratio of num_particles, the timestep call
\* that left it so has flagged the collapse to its caller
C16_CollapseReported ==
    (Len(fs_particles) = num_particles /\ Collapsed(fs_particles))
        => fs_last.collapse

\* ---------------------------------------------------------------------
\* Properties of the results of the estimators
\* ---------------------------------------------------------------------
\* C12: for FastSLAM with and without history, MCMC-SLAM and graph SLAM, the
\* tree get_trajectory() returns once a timestep has been processed has
\* exactly current_timestep() elements, and so has the tree it keeps
C12_TrajectoryLength ==
    /\ fs_next_timestep > 0 =>
          /\ Len(fs_trajectory_result) = fs_current_timestep
          /\ fs_discard_history => Len(fs_trajectory_estimate) = fs_current_timestep
    /\ g2o_next_timestep > 0 => Len(g2o_trajectory_result) = g2o_current_timestep
    /\ Len(mcmc_get_trajectory) = mcmc_current_timestep

\* FastSLAM with history has materialised the tree of a trajectory with a
\* control in it
C12_Witness ==
    /\ selected = "fastslam"
    /\ ~fs_discard_history
    /\ fs_next_timestep > 1
    /\ Len(fs_trajectory_estimate) = fs_current_timestep

\* get_state(t) is the composition of the first t increments of the tree
\* get_trajectory() returns in this state
StatesMatchTrajectory ==
    /\ fs_next_timestep > 0 =>
          \A t \in 0..fs_current_timestep :
              fs_get_state(t) = accumulate_to(fs_trajectory_result, t)
    /\ g2o_next_timestep > 0 =>
          \A t \in 0..g2o_current_timestep :
              g2o_get_state(t) = accumulate_to(g2o_trajectory_result, t)
    /\ \A t \in 0..mcmc_current_timestep :
          mcmc_get_state(t) = accumulate_to(mcmc_get_trajectory, t)

\* a call of get_trajectory() leaves every get_state(t) as it was
TrajectoryKeepsStates ==
    /\ fs_get_trajectory =>
          \A t \in 0..fs_current_timestep : fs_get_state(t)' = fs_get_state(t)
    /\ g2o_get_trajectory =>
          \A t \in 0..g2o_current_timestep : g2o_get_state(t)' = g2o_get_state(t)

C14_FixedOrigin ==
    /\ g2o_state_vertices[1].fixed
    /\ g2o_state_vertices[1].estimate = Zero
    /\ g2o_get_state(0) = Zero

\* an optimise call has iterated and left the next pose vertex away from the
\* estimate control and reinitialise give it
C14_Witness ==
    /\ g2o_last.op = "optimise"
    /\ g2o_last.status.iterations > 0
    /\ Len(g2o_state_vertices) > 1
    /\ g2o_state_vertices[2].estimate # InitialiserState(1)
    /\ g2o_get_state(0) = Zero

\* the ids of all vertices of the graph
VertexIds ==
    {g2o_state_vertices[i].id : i \in 1..Len(g2o_state_vertices)}
        \cup {g2o_feature_vertices[i][2].id : i \in 1..Len(g2o_feature_vertices)}

\* one pose vertex per control and one more, one landmark vertex per feature
\* observed, none of them null, and no two vertices with the same id
VertexCounts ==
    /\ Len(g2o_state_vertices) = g2o_received.controls + 1
    /\ MapKeys(g2o_feature_vertices) = g2o_received.features
    /\ \A i \in 1..Len(g2o_feature_vertices) : g2o_feature_vertices[i][2] # Null
    /\ g2o_next_vertex_id = Len(g2o_state_vertices) + Len(g2o_feature_vertices)
    /\ Cardinality(VertexIds) = Len(g2o_state_vertices) + Len(g2o_feature_vertices)

\* an observation of a feature that has its vertex adds an edge and no vertex
RepeatedObservation ==
    \A id \in g2o_received.features :
        g2o_observation(id, Sighting(id)) =>
            /\ g2o_next_vertex_id' = g2o_next_vertex_id
            /\ VertexIds' = VertexIds
            /\ Cardinality(g2o_edges') = Cardinality(g2o_edges) + 1

\* C15: in every reachable state of graph SLAM the pose vertices are one more
\* than the controls received, every feature observed so far has exactly one
\* landmark vertex, which is not null, all vertex ids differ, and a repeated
\* observation of a known feature adds an edge but no vertex
C15_Vertices == []VertexCounts /\ [][RepeatedObservation]_vars

\* a feature was observed again after a control, beside another feature
C15_Witness ==
    /\ g2o_received.controls > 0
    /\ g2o_received.features = FeatureIds
    /\ Cardinality(g2o_edges) >
          g2o_received.controls + Cardinality(g2o_received.features)

\* C17: the status optimise returns holds the iterations performed and a
\* convergence flag, and the iterations are 0 when the call returned early
C17_OptimiseStatus ==
    g2o_last.op = "optimise" =>
        /\ DOMAIN g2o_last.status = {"iterations", "converged"}
        /\ g2o_last.early => g2o_last.status.iterations = 0

\* C18: on an estimator that has processed no timestep and received no
\* event, current_timestep() passes its precondition and returns 0, and
\* get_trajectory() and get_feature_map() return an empty tree and map
C18_EmptyStates ==
    /\ (fs_next_timestep = 0 /\ fs_observed = {}) =>
          /\ fs_current_timestep_defined
          /\ fs_current_timestep = 0
          /\ fs_trajectory_result = <<>>
          /\ fs_map_result = <<>>
    /\ (g2o_next_timestep = 0 /\ g2o_received.features = {}) =>
          /\ g2o_current_timestep_defined
          /\ g2o_current_timestep = 0
          /\ g2o_trajectory_result = <<>>
          /\ g2o_map_result = <<>>
    /\ (state_estimates = <<>> /\ feature_estimates = <<>>) =>
          /\ mcmc_current_timestep = 0
          /\ mcmc_get_trajectory = <<>>

\* the seed policy at the construction that seeded r: the option if it was
\* given, else the seed the constructor got, stored under the option
FollowsSeedPolicy(key, r) ==
    IF options[key] # 0
    THEN r.seed = options[key] /\ options' = options
    ELSE r.seed = r.given /\ options' = [options EXCEPT ![key] = r.given]

\* C19: the constructors of FastSLAM and MCMC-SLAM seed the random source
\* with the value of the seed option if the configuration has it, and else
\* with the seed they are given, which they store under the option
C19_SeedPolicy ==
    [][/\ fs_random' # fs_random => FollowsSeedPolicy("fastslam-seed", fs_random')
       /\ mcmc_random' # mcmc_random => FollowsSeedPolicy("mcmc-slam-seed", mcmc_random')]_vars

\* C20: the edge update() selects in either class is the one binary_search
\* finds for the draw, so within range
C20_EdgeSelection ==
    chosen.class # "none" =>
        /\ chosen.index = binary_search(chosen.weights, chosen.draw)
        /\ chosen.index < Len(chosen.weights)

Init ==
    /\ LogInit /\ CowInit /\ McmcInit /\ FastStart(FALSE) /\ G2oInit
    /\ SeedStart /\ SelectionInit /\ AuxInit
    /\ selected = "mcmc_slam"

Next == LogNext

Spec == Init /\ [][Next]_vars

\* the log with a single listener object beside it
SingleListenerInit ==
    /\ LogStart({CHOOSE l \in Listeners : TRUE}) /\ CowInit /\ McmcInit
    /\ FastStart(FALSE) /\ G2oInit
    /\ SeedStart /\ SelectionInit /\ AuxInit
    /\ selected = "mcmc_slam"

SingleListenerSpec == SingleListenerInit /\ [][LogNext]_vars

SingleFeatureSpec == Init /\ [][SingleFeatureNext]_vars

CowSpec == Init /\ [][CowNext]_vars

McmcSpec == Init /\ [][McmcNext]_vars

FastSlamInit ==
    /\ LogInit /\ CowInit /\ McmcInit /\ FastInit /\ G2oInit
    /\ SeedStart /\ SelectionInit /\ AuxInit
    /\ selected = "fastslam"

FastSpec == FastSlamInit /\ [][FastNext]_vars

G2oSlamInit ==
    /\ LogInit /\ CowInit /\ McmcInit /\ FastStart(FALSE) /\ G2oInit
    /\ SeedStart /\ SelectionInit /\ AuxInit
    /\ selected = "g2o_slam"

G2oSpec == G2oSlamInit /\ [][G2oNext]_vars

\* the program runs one of the estimators
EstimatorsInit ==
    /\ LogInit /\ CowInit /\ McmcInit /\ FastInit /\ G2oInit
    /\ SeedStart /\ SelectionInit /\ AuxInit
    /\ selected \in Estimators
    /\ fs_discard_history => selected = "fastslam"

EstimatorsNext ==
    \/ selected = "fastslam" /\ FastNext
    \/ selected = "mcmc_slam" /\ McmcNext
    \/ selected = "g2o_slam" /\ G2oNext

EstimatorsSpec == EstimatorsInit /\ [][EstimatorsNext]_vars

\* the driver feeds the selected estimator and also repeats timestep(t) calls of
\* earlier timesteps
RepeatingNext ==
    \/ /\ selected = "fastslam"
       /\ \/ \E u \in Values : fs_control(u)
          \/ \E id \in FeatureIds : fs_observation(id, Sighting(id))
          \/ fs_timestep
          \/ fs_get_feature_map
          \/ \E t \in 0..MaxControls : fs_timestep_again(t)
    \/ /\ selected = "mcmc_slam"
       /\ \/ \E u \in Values : data_add_control(u)
          \/ \E f \in FeatureIds : data_add_observation(f, Sighting(f))
          \/ timestep
          \/ update_state
          \/ update_feature
          \/ update_nothing
          \/ \E t \in 0..MaxControls : mcmc_timestep_again(t)
    \/ /\ selected = "g2o_slam"
       /\ \/ \E u \in Values : g2o_control(u)
          \/ \E id \in FeatureIds : g2o_observation(id, Sighting(id))
          \/ g2o_timestep
          \/ g2o_get_feature_map
          \/ \E t \in 0..MaxControls : g2o_timestep_again(t)

\* fastslam with its particles as objects
SharingSpec == FastSlamInit /\ [][ShareNext]_vars

\* g2o_slam and its initialiser on one log
InitialisedSpec == G2oSlamInit /\ [][InitialisedNext]_vars

\* the simulation loop drives fastslam
DriverSpec == FastSlamInit /\ [][DriverNext]_vars

RepeatingSpec == EstimatorsInit /\ [][RepeatingNext]_vars

\* the program constructs its randomised estimators
ConstructionInit ==
    /\ LogInit /\ CowInit /\ McmcInit /\ FastStart(FALSE) /\ G2oInit
    /\ SeedInit /\ SelectionInit /\ AuxInit
    /\ selected = "mcmc_slam"

ConstructionSpec == ConstructionInit /\ [][SeedNext]_vars

SelectionSpec == Init /\ [][SelectionNext]_vars

====
